---- MODULE Spec2Model ----
(***************************************************************************)
(* ts-routeways: the route builder (src/lib/Routeways.ts), the codecs      *)
(* (src/lib/Codecs.ts) and the parts of the platform they call (String     *)
(* methods, encodeURI, encodeURIComponent, URL, URLSearchParams).          *)
(*                                                                         *)
(* JavaScript strings are TLA+ strings, handled with Len, SubSeq and \o.   *)
(* JavaScript values are tagged records, so that values of different       *)
(* types can be compared: [num |-> 1], [str |-> "a"], [bool |-> TRUE],     *)
(* [arr |-> <<...>>], [undefined |-> TRUE]. A thrown error is the record   *)
(* [error |-> <class name>, message |-> <message>]. A JavaScript object    *)
(* whose key order is observable (a codec map, a builder's routes) is a    *)
(* sequence of entries; params and parse results are functions from keys.  *)
(***************************************************************************)
EXTENDS Integers, Sequences, FiniteSets, TLC

VARIABLES builder, routes, call, result, heap, Codecs, location, hook, navigated

vars == <<builder, routes, call, result, heap, Codecs, location, hook, navigated>>

-----------------------------------------------------------------------------
(* Bounds of the model.                                                    *)

\* top-level routes a builder chain may hold
MaxRoutes == 2
\* arrays given to makeUrl have at most MaxArrayLen elements
MaxArrayLen == 2

-----------------------------------------------------------------------------
(* String.prototype methods.                                               *)

CharAt(s, i) == SubSeq(s, i, i)

startsWith(s, p) == Len(s) >= Len(p) /\ SubSeq(s, 1, Len(p)) = p

endsWith(s, p) == Len(s) >= Len(p) /\ SubSeq(s, Len(s) - Len(p) + 1, Len(s)) = p

\* 1-based position of the first occurrence of p in s at or after from; 0 if none
RECURSIVE IndexFrom(_, _, _)
IndexFrom(s, p, from) ==
  IF from + Len(p) - 1 > Len(s) THEN 0
  ELSE IF SubSeq(s, from, from + Len(p) - 1) = p THEN from
  ELSE IndexFrom(s, p, from + 1)

includes(s, p) == IndexFrom(s, p, 1) > 0

\* s.split(sep), sep not empty: "".split("/") is [""], "/a".split("/") is ["", "a"]
RECURSIVE split(_, _)
split(s, sep) ==
  LET i == IndexFrom(s, sep, 1)
  IN IF i = 0 THEN <<s>>
     ELSE <<SubSeq(s, 1, i - 1)>> \o split(SubSeq(s, i + Len(sep), Len(s)), sep)

\* array.join(sep)
RECURSIVE join(_, _)
join(xs, sep) ==
  IF Len(xs) = 0 THEN ""
  ELSE IF Len(xs) = 1 THEN xs[1]
  ELSE xs[1] \o sep \o join(Tail(xs), sep)

\* s.replaceAll(pattern, replacement) for a string pattern: the occurrences
\* are found left to right in s, and the replacement is not searched again.
\* (The replacement holds no "$" in this model, so no "$&" pattern applies.)
RECURSIVE replaceAll(_, _, _)
replaceAll(s, pattern, replacement) ==
  LET i == IndexFrom(s, pattern, 1)
  IN IF i = 0 THEN s
     ELSE SubSeq(s, 1, i - 1) \o replacement
          \o replaceAll(SubSeq(s, i + Len(pattern), Len(s)), pattern, replacement)

\* array.indexOf(x), 0-based as in JavaScript; -1 if none
RECURSIVE IndexOfFrom(_, _, _)
IndexOfFrom(xs, x, i) ==
  IF i > Len(xs) THEN -1
  ELSE IF xs[i] = x THEN i - 1
  ELSE IndexOfFrom(xs, x, i + 1)

\* a faulty variant: an indexOf that counts from one
indexOfOneBased(xs, x) == IndexOfFrom(xs, x, 1) + 1

indexOf(xs, x) == IndexOfFrom(xs, x, 1)

-----------------------------------------------------------------------------
(* Numbers. A JavaScript number is one of                                  *)
(*   [num |-> n]                      the integer n (-0 is not told apart  *)
(*                                    from 0),                             *)
(*   [num |-> u, scale |-> k]         the decimal u / 10^k, k > 0 and u no *)
(*                                    multiple of 10,                      *)
(*   [num |-> 1 or -1, infinite |-> TRUE]   Infinity and -Infinity,        *)
(*   [num |-> 0, nan |-> TRUE]        NaN.                                 *)
(* The decimals are exact: the values used are short decimal literals,     *)
(* which String(..) and Number(..) carry unchanged.                        *)

Num(n) == [num |-> n]

Decimal(units, scale) == [num |-> units, scale |-> scale]

Infinity == [num |-> 1, infinite |-> TRUE]

NaN == [num |-> 0, nan |-> TRUE]

IsNum(v) == "num" \in DOMAIN v

\* isNaN(value) on a number
isNaN(v) == "nan" \in DOMAIN v

RECURSIVE Pow10(_)
Pow10(k) == IF k = 0 THEN 1 ELSE 10 * Pow10(k - 1)

\* the number units / 10^scale in its canonical form
RECURSIVE Normalize(_, _)
Normalize(units, scale) ==
  IF scale = 0 THEN Num(units)
  ELSE IF units % 10 = 0 THEN Normalize(units \div 10, scale - 1)
  ELSE Decimal(units, scale)

\* -x
Negate(v) ==
  IF isNaN(v) THEN v
  ELSE IF "infinite" \in DOMAIN v THEN [num |-> -v.num, infinite |-> TRUE]
  ELSE IF "scale" \in DOMAIN v THEN Decimal(-v.num, v.scale)
  ELSE Num(-v.num)

Digits == <<"0", "1", "2", "3", "4", "5", "6", "7", "8", "9">>

IsDigit(c) == \E d \in 1..10 : Digits[d] = c

DigitValue(c) == (CHOOSE d \in 1..10 : Digits[d] = c) - 1

\* String(n) for a natural number
RECURSIVE NatToString(_)
NatToString(n) ==
  IF n < 10 THEN Digits[n + 1] ELSE NatToString(n \div 10) \o Digits[(n % 10) + 1]

\* the digits of n, zero-padded on the left to the given width
RECURSIVE Padded(_, _)
Padded(n, width) ==
  IF Len(NatToString(n)) >= width THEN NatToString(n)
  ELSE "0" \o SubSeq(Padded(n, width - 1), 1, width - 1)

\* String(value) on a number
NumberToString(v) ==
  IF isNaN(v) THEN "NaN"
  ELSE IF "infinite" \in DOMAIN v THEN (IF v.num > 0 THEN "Infinity" ELSE "-Infinity")
  ELSE LET magnitude == IF v.num < 0 THEN -v.num ELSE v.num
           sign      == IF v.num < 0 THEN "-" ELSE ""
       IN IF "scale" \in DOMAIN v
          THEN sign \o NatToString(magnitude \div Pow10(v.scale)) \o "."
                    \o Padded(magnitude % Pow10(v.scale), v.scale)
          ELSE sign \o NatToString(magnitude)

AllDigits(s) == Len(s) > 0 /\ \A i \in 1..Len(s) : IsDigit(CharAt(s, i))

RECURSIVE DigitsToNat(_)
DigitsToNat(s) ==
  IF Len(s) = 0 THEN 0
  ELSE DigitsToNat(SubSeq(s, 1, Len(s) - 1)) * 10 + DigitValue(CharAt(s, Len(s)))

\* the digits of a radix literal, in either case
HexDigits == <<{"0"}, {"1"}, {"2"}, {"3"}, {"4"}, {"5"}, {"6"}, {"7"}, {"8"}, {"9"},
               {"a", "A"}, {"b", "B"}, {"c", "C"}, {"d", "D"}, {"e", "E"}, {"f", "F"}>>

RadixDigitValue(c) == (CHOOSE d \in 1..16 : c \in HexDigits[d]) - 1

RECURSIVE RadixToNat(_, _)
RadixToNat(s, radix) ==
  IF Len(s) = 0 THEN 0
  ELSE RadixToNat(SubSeq(s, 1, Len(s) - 1), radix) * radix + RadixDigitValue(CharAt(s, Len(s)))

\* the radix of a 0x / 0o / 0b literal, 0 if the text is none
LiteralRadix(s) ==
  IF Len(s) < 3 \/ CharAt(s, 1) /= "0" THEN 0
  ELSE LET radix == CASE CharAt(s, 2) \in {"x", "X"} -> 16
                      [] CharAt(s, 2) \in {"o", "O"} -> 8
                      [] CharAt(s, 2) \in {"b", "B"} -> 2
                      [] OTHER -> 0
       IN IF radix > 0 /\ \A i \in 3..Len(s) : \E d \in 1..radix : CharAt(s, i) \in HexDigits[d]
          THEN radix ELSE 0

\* the number units / 10^scale * 10^exponent
Scaled(units, scale, exponent) ==
  IF units = 0 THEN Num(0)
  ELSE IF scale >= exponent THEN Normalize(units, scale - exponent)
  ELSE Num(units * Pow10(exponent - scale))

\* the ExponentPart after the e of a decimal literal: [+-]digits
ExponentPart(units, scale, text) ==
  IF startsWith(text, "-")
  THEN IF AllDigits(SubSeq(text, 2, Len(text)))
       THEN Scaled(units, scale, -DigitsToNat(SubSeq(text, 2, Len(text)))) ELSE NaN
  ELSE IF startsWith(text, "+")
  THEN IF AllDigits(SubSeq(text, 2, Len(text)))
       THEN Scaled(units, scale, DigitsToNat(SubSeq(text, 2, Len(text)))) ELSE NaN
  ELSE IF AllDigits(text) THEN Scaled(units, scale, DigitsToNat(text)) ELSE NaN

\* the value of an unsigned decimal literal (Infinity, digits, digits.digits,
\* digits. or .digits, with an optional exponent), read from position i on;
\* NaN if the text is none. units holds the digits read, scale how many of
\* them follow the dot, digits their count, dot whether the dot is passed.
RECURSIVE UnsignedDecimal(_, _, _, _, _, _)
UnsignedDecimal(s, i, units, scale, digits, dot) ==
  IF s = "Infinity" THEN Infinity
  ELSE IF i > Len(s) THEN (IF digits > 0 THEN Scaled(units, scale, 0) ELSE NaN)
  ELSE IF IsDigit(CharAt(s, i))
    THEN UnsignedDecimal(s, i + 1, units * 10 + DigitValue(CharAt(s, i)),
                         IF dot THEN scale + 1 ELSE scale, digits + 1, dot)
  ELSE IF CharAt(s, i) = "." /\ ~dot THEN UnsignedDecimal(s, i + 1, units, scale, digits, TRUE)
  ELSE IF CharAt(s, i) \in {"e", "E"} /\ digits > 0
    THEN ExponentPart(units, scale, SubSeq(s, i + 1, Len(s)))
  ELSE NaN

\* Number(text): the value of a StringNumericLiteral. The white space
\* around the text is stripped; the empty text is 0, then come the 0x / 0o /
\* 0b literals and the signed decimal literals; any other text is NaN.
RECURSIVE StringToNumber(_)
StringToNumber(text) ==
  IF startsWith(text, " ") THEN StringToNumber(SubSeq(text, 2, Len(text)))
  ELSE IF endsWith(text, " ") THEN StringToNumber(SubSeq(text, 1, Len(text) - 1))
  ELSE IF text = "" THEN Num(0)
  ELSE IF LiteralRadix(text) > 0
    THEN Num(RadixToNat(SubSeq(text, 3, Len(text)), LiteralRadix(text)))
  ELSE IF startsWith(text, "-")
    THEN Negate(UnsignedDecimal(SubSeq(text, 2, Len(text)), 1, 0, 0, 0, FALSE))
  ELSE IF startsWith(text, "+")
    THEN UnsignedDecimal(SubSeq(text, 2, Len(text)), 1, 0, 0, 0, FALSE)
  ELSE UnsignedDecimal(text, 1, 0, 0, 0, FALSE)

-----------------------------------------------------------------------------
(* Dates. A Date holds a time value in milliseconds since the epoch, kept  *)
(* here as Day(t) and TimeWithinDay(t):                                    *)
(*   [date |-> [day |-> d, time |-> ms]]     a valid date,                 *)
(*   [date |-> .., invalid |-> TRUE]         an Invalid Date (NaN).        *)

MsPerDay == 86400000

DateValue(day, time) == [date |-> [day |-> day, time |-> time]]

InvalidDate == [date |-> [day |-> 0, time |-> 0], invalid |-> TRUE]

\* value instanceof Date
IsDate(v) == "date" \in DOMAIN v

\* isValidDate(date): !isNaN(date.getTime())
isValidDate(date) == "invalid" \notin DOMAIN date

IsLeapYear(y) == (y % 4 = 0 /\ y % 100 /= 0) \/ y % 400 = 0

DaysInYear(y) == IF IsLeapYear(y) THEN 366 ELSE 365

DaysInMonth(y, m) ==
  IF m = 2 THEN (IF IsLeapYear(y) THEN 29 ELSE 28)
  ELSE IF m \in {4, 6, 9, 11} THEN 30 ELSE 31

\* YearFromTime and the day within the year, counted from the given year
RECURSIVE YearOfDay(_, _)
YearOfDay(day, year) ==
  IF day < 0 THEN YearOfDay(day + DaysInYear(year - 1), year - 1)
  ELSE IF day >= DaysInYear(year) THEN YearOfDay(day - DaysInYear(year), year + 1)
  ELSE [year |-> year, day |-> day]

\* MonthFromTime and DateFromTime, counted from the given month
RECURSIVE MonthOfDay(_, _, _)
MonthOfDay(day, year, month) ==
  IF day >= DaysInMonth(year, month) THEN MonthOfDay(day - DaysInMonth(year, month), year, month + 1)
  ELSE [month |-> month, date |-> day + 1]

\* date.toISOString() of a valid date with a year in 0..9999
toISOString(date) ==
  LET y  == YearOfDay(date.date.day, 1970)
      m  == MonthOfDay(y.day, y.year, 1)
      ms == date.date.time
  IN Padded(y.year, 4) \o "-" \o Padded(m.month, 2) \o "-" \o Padded(m.date, 2)
       \o "T" \o Padded(ms \div 3600000, 2) \o ":" \o Padded((ms \div 60000) % 60, 2)
       \o ":" \o Padded((ms \div 1000) % 60, 2) \o "." \o Padded(ms % 1000, 3) \o "Z"

\* the days from the epoch to the first day of the year
RECURSIVE DayFromYear(_)
DayFromYear(y) ==
  IF y = 1970 THEN 0
  ELSE IF y > 1970 THEN DayFromYear(y - 1) + DaysInYear(y - 1)
  ELSE DayFromYear(y + 1) - DaysInYear(y)

RECURSIVE DayFromMonth(_, _)
DayFromMonth(y, m) == IF m = 1 THEN 0 ELSE DayFromMonth(y, m - 1) + DaysInMonth(y, m - 1)

\* MakeDay(year, month, date)
MakeDay(y, m, d) == DayFromYear(y) + DayFromMonth(y, m) + d - 1

\* the digits of text at [from, from + width), as a number; -1 if they are
\* no digits
Field(text, from, width) ==
  IF from + width - 1 <= Len(text) /\ AllDigits(SubSeq(text, from, from + width - 1))
  THEN DigitsToNat(SubSeq(text, from, from + width - 1)) ELSE -1

\* the time value of day and milliseconds, the milliseconds carried over
DateOf(day, ms) == DateValue(day + (IF ms < 0 THEN -1 ELSE ms \div MsPerDay),
                             (ms + MsPerDay) % MsPerDay)

\* new Date(text) for the date-time string format: YYYY-MM-DD, and
\* YYYY-MM-DDTHH:mm:ss.sss followed by Z or by an offset +HH:mm / -HH:mm.
\* Any other text is taken as unparsable (the fallback formats an engine
\* may accept on top are not modelled).
NewDate(text) ==
  LET year   == Field(text, 1, 4)
      month  == Field(text, 6, 2)
      day    == Field(text, 9, 2)
      hour   == Field(text, 12, 2)
      minute == Field(text, 15, 2)
      second == Field(text, 18, 2)
      milli  == Field(text, 21, 3)
      offH   == Field(text, 25, 2)
      offM   == Field(text, 28, 2)
      dateOk == /\ Len(text) >= 10
                /\ year >= 0 /\ month \in 1..12
                /\ CharAt(text, 5) = "-" /\ CharAt(text, 8) = "-"
                /\ day >= 1 /\ day <= DaysInMonth(year, month)
      timeOk == /\ CharAt(text, 11) = "T" /\ CharAt(text, 14) = ":" /\ CharAt(text, 17) = ":"
                /\ CharAt(text, 20) = "."
                /\ hour \in 0..23 /\ minute \in 0..59 /\ second \in 0..59 /\ milli >= 0
      ms     == ((hour * 60 + minute) * 60 + second) * 1000 + milli
      offset == (offH * 60 + offM) * 60000
  IN IF ~dateOk THEN InvalidDate
     ELSE IF Len(text) = 10 THEN DateValue(MakeDay(year, month, day), 0)
     ELSE IF Len(text) = 24 /\ timeOk /\ CharAt(text, 24) = "Z"
       THEN DateValue(MakeDay(year, month, day), ms)
     ELSE IF /\ Len(text) = 29 /\ timeOk /\ CharAt(text, 24) \in {"+", "-"}
             /\ CharAt(text, 27) = ":" /\ offH \in 0..23 /\ offM \in 0..59
       THEN DateOf(MakeDay(year, month, day),
                   IF CharAt(text, 24) = "+" THEN ms - offset ELSE ms + offset)
     ELSE InvalidDate

-----------------------------------------------------------------------------
(* Percent-encoding: encodeURIComponent, encodeURI, and the URL parser.    *)

Alnum == "abcdefghijklmnopqrstuvwxyzABCDEFGHIJKLMNOPQRSTUVWXYZ0123456789"

\* characters encodeURIComponent leaves as they are, besides Alnum
UriUnreservedMarks == "-_.!~*'()"

\* the UTF-8 percent codes of the other ASCII characters of the model
PercentCodes ==
  <<[char |-> " ", code |-> "%20"], [char |-> "%", code |-> "%25"],
    [char |-> "[", code |-> "%5B"], [char |-> "]", code |-> "%5D"],
    [char |-> "/", code |-> "%2F"], [char |-> "?", code |-> "%3F"],
    [char |-> ":", code |-> "%3A"], [char |-> "@", code |-> "%40"],
    [char |-> "&", code |-> "%26"], [char |-> "=", code |-> "%3D"],
    [char |-> "+", code |-> "%2B"], [char |-> "$", code |-> "%24"],
    [char |-> ",", code |-> "%2C"], [char |-> "#", code |-> "%23"],
    [char |-> ";", code |-> "%3B"], [char |-> "<", code |-> "%3C"],
    [char |-> ">", code |-> "%3E"], [char |-> "\"", code |-> "%22"],
    [char |-> "'", code |-> "%27"]>>

PercentCode(c) ==
  IF \E i \in 1..Len(PercentCodes) : PercentCodes[i].char = c
  THEN (CHOOSE e \in {PercentCodes[i] : i \in 1..Len(PercentCodes)} : e.char = c).code
  ELSE c

RECURSIVE EncodeExcept(_, _)
EncodeExcept(s, keep) ==
  IF Len(s) = 0 THEN ""
  ELSE LET c == CharAt(s, 1)
       IN (IF includes(keep, c) THEN c ELSE PercentCode(c))
          \o EncodeExcept(SubSeq(s, 2, Len(s)), keep)

encodeURIComponent(s) == EncodeExcept(s, Alnum \o UriUnreservedMarks)

encodeURI(s) == EncodeExcept(s, Alnum \o UriUnreservedMarks \o ";/?:@&=+$,#")

\* percent-decoding of the codes of PercentCodes; any other "%" stays
RECURSIVE PercentDecode(_)
PercentDecode(s) ==
  IF Len(s) = 0 THEN ""
  ELSE IF CharAt(s, 1) = "%" /\ Len(s) >= 3
          /\ \E i \in 1..Len(PercentCodes) : PercentCodes[i].code = SubSeq(s, 1, 3)
    THEN (CHOOSE e \in {PercentCodes[i] : i \in 1..Len(PercentCodes)} :
            e.code = SubSeq(s, 1, 3)).char
         \o PercentDecode(SubSeq(s, 4, Len(s)))
  ELSE CharAt(s, 1) \o PercentDecode(SubSeq(s, 2, Len(s)))

-----------------------------------------------------------------------------
(* new URL(href) for http URLs: pathname, search and searchParams.        *)
(* The inputs of the model hold no "." or ".." path chunk, no backslash    *)
(* and no port, so the parser's dot-segment and host handling is left out. *)

\* position of the first character of s at or after from that is in chars; Len(s)+1 if none
RECURSIVE FirstOf(_, _, _)
FirstOf(s, chars, from) ==
  IF from > Len(s) THEN Len(s) + 1
  ELSE IF includes(chars, CharAt(s, from)) THEN from
  ELSE FirstOf(s, chars, from + 1)

RECURSIVE EncodeOnly(_, _)
EncodeOnly(s, set) ==
  IF Len(s) = 0 THEN ""
  ELSE LET c == CharAt(s, 1)
       IN (IF includes(set, c) THEN PercentCode(c) ELSE c)
          \o EncodeOnly(SubSeq(s, 2, Len(s)), set)

\* new URL(href): [pathname, search, searchParams] with searchParams the
\* list of [name, value] pairs of the application/x-www-form-urlencoded parser
\* rest is the part of href after the scheme and the host; the URL parser
\* percent-encodes space, ", #, < and > in a path and in a query, ? in a
\* path and ' in a query.
URL(href) ==
  LET hostStart == IndexFrom(href, "://", 1) + 3
      rest     == SubSeq(href, FirstOf(href, "/?#", hostStart), Len(href))
      hashAt   == FirstOf(rest, "#", 1)
      noHash   == SubSeq(rest, 1, hashAt - 1)
      queryAt  == FirstOf(noHash, "?", 1)
      rawPath  == SubSeq(noHash, 1, queryAt - 1)
      rawQuery == SubSeq(noHash, queryAt + 1, Len(noHash))
      query    == EncodeOnly(rawQuery, " \"#<>'")
      pieces   == SelectSeq(split(query, "&"), LAMBDA p : p /= "")
      Pair(p)  == LET eq == FirstOf(p, "=", 1)
                  IN [name  |-> PercentDecode(replaceAll(SubSeq(p, 1, eq - 1), "+", " ")),
                      value |-> PercentDecode(replaceAll(SubSeq(p, eq + 1, Len(p)), "+", " "))]
  IN [pathname     |-> IF rawPath = "" THEN "/" ELSE EncodeOnly(rawPath, " \"#<>?"),
      search       |-> IF query = "" THEN "" ELSE "?" \o query,
      searchParams |-> [i \in 1..Len(pieces) |-> Pair(pieces[i])]]

Null == [null |-> TRUE]

\* URLSearchParams.get(name): the first value of that name, or null
searchParamsGet(searchParams, name) ==
  LET hits == SelectSeq(searchParams, LAMBDA p : p.name = name)
  IN IF Len(hits) = 0 THEN Null ELSE [str |-> hits[1].value]

\* a faulty variant: only the first value of that name is returned
searchParamsGetAllFirst(searchParams, name) ==
  LET hits == SelectSeq(searchParams, LAMBDA p : p.name = name)
  IN [i \in 1..(IF Len(hits) = 0 THEN 0 ELSE 1) |-> hits[i].value]

\* URLSearchParams.getAll(name): every value of that name, in order
searchParamsGetAll(searchParams, name) ==
  LET hits == SelectSeq(searchParams, LAMBDA p : p.name = name)
  IN [i \in 1..Len(hits) |-> hits[i].value]

-----------------------------------------------------------------------------
(* JavaScript values and thrown errors.                                    *)

Undefined == [undefined |-> TRUE]

Str(s) == [str |-> s]
Bool(b) == [bool |-> b]
Arr(xs) == [arr |-> xs]

IsStr(v) == DOMAIN v = {"str"}
IsBool(v) == DOMAIN v = {"bool"}
IsArr(v) == DOMAIN v = {"arr"}

\* a thrown error: its class and its message
Throw(class, message) == [error |-> class, message |-> message]

IsError(v) == "error" \in DOMAIN v

\* the first error of a sequence of results, as xs.map(f) throws it
FirstError(xs) == xs[CHOOSE i \in 1..Len(xs) : IsError(xs[i]) /\ \A j \in 1..(i - 1) : ~IsError(xs[j])]

AnyError(xs) == \E i \in 1..Len(xs) : IsError(xs[i])

\* `${value}` in a template literal
RECURSIVE JsString(_)
JsString(v) ==
  IF IsNum(v) THEN NumberToString(v)
  ELSE IF IsDate(v) /\ ~isValidDate(v) THEN "Invalid Date"
  ELSE IF IsStr(v) THEN v.str
  ELSE IF IsBool(v) THEN (IF v.bool THEN "true" ELSE "false")
  ELSE IF IsArr(v) THEN join([i \in 1..Len(v.arr) |-> JsString(v.arr[i])], ",")
  ELSE IF v = Null THEN "null"
  ELSE "undefined"

-----------------------------------------------------------------------------
(* Codecs (src/lib/Codecs.ts). A codec is a record: [type |-> "Boolean"],  *)
(* [type |-> "Number"], [type |-> "String"], or                            *)
(* [type |-> "array", codec |-> inner, delimiter |-> d, format |-> f].     *)

BooleanCodec == [type |-> "Boolean"]
NumberCodec == [type |-> "Number"]
StringCodec == [type |-> "String"]
DateCodec == [type |-> "Date"]

\* Codecs.null(codec)
null(codec) == [type |-> "null", codec |-> codec]

\* a faulty variant: the wrapper of undefined is built as the one of null
undefinedAsNull(codec) == [type |-> "null", codec |-> codec]

\* Codecs.undefined(codec)
undefined(codec) == [type |-> "undefined", codec |-> codec]

\* a faulty variant: nullish wraps for null only
nullishNullOnly(codec) == null(codec)

\* Codecs.nullish(codec)
nullish(codec) == null(undefined(codec))

\* Codecs.numberLiteral(...literals); literals is the sequence of arguments
numberLiteral(literals) == [type |-> "numberLiteral", literals |-> literals]

\* Codecs.stringLiteral(...literals)
stringLiteral(literals) == [type |-> "stringLiteral", literals |-> literals]

\* a faulty variant: the format defaults to delimited
arrayDelimitedDefault(codec, options) ==
  [type      |-> "array",
   codec     |-> codec,
   delimiter |-> IF "delimiter" \in DOMAIN options THEN options.delimiter ELSE ",",
   format    |-> IF "format" \in DOMAIN options THEN options.format ELSE "delimited"]

\* Codecs.array(codec, options) with the defaults of the destructuring
array(codec, options) ==
  [type      |-> "array",
   codec     |-> codec,
   delimiter |-> IF "delimiter" \in DOMAIN options THEN options.delimiter ELSE ",",
   format    |-> IF "format" \in DOMAIN options THEN options.format ELSE "json"]

BooleanDecode(text) ==
  IF text = "true" THEN Bool(TRUE)
  ELSE IF text = "false" THEN Bool(FALSE)
  ELSE Throw("CodecDecodeError",
             "Boolean values must be \"true\" or \"false\". Got \"" \o text \o "\" instead")

BooleanEncode(value) ==
  IF IsBool(value) THEN Str(JsString(value))
  ELSE Throw("CodecEncodeError",
             "Unable to encode \"" \o JsString(value) \o "\". A boolean value was expected")

NumberDecode(text) ==
  LET numValue == StringToNumber(text)
  IN IF text /= "" /\ ~isNaN(numValue) THEN numValue
     ELSE Throw("CodecDecodeError",
                "Number values must be numeric only. Got \"" \o text \o "\" instead")

NumberEncode(value) ==
  IF IsNum(value) THEN Str(JsString(value))
  ELSE Throw("CodecEncodeError",
             "Unable to encode \"" \o JsString(value) \o "\". A number value was expected")

DateDecode(text) ==
  LET date == NewDate(text)
  IN IF isValidDate(date) THEN date
     ELSE Throw("CodecDecodeError",
                "Date values must have a ISO or RFC2822 format. Got \"" \o text \o "\" instead")

DateEncode(value) ==
  IF IsDate(value) /\ isValidDate(value) THEN Str(toISOString(value))
  ELSE Throw("CodecEncodeError",
             "Unable to encode \"" \o JsString(value) \o "\". A Date instance was expected")

StringDecode(text) == Str(text)

StringEncode(value) ==
  IF IsStr(value) THEN value
  ELSE Throw("CodecEncodeError",
             "Unable to encode \"" \o JsString(value) \o "\". A string value was expected")

\* a faulty variant: the elements that throw are left out
MapResultSkipErrors(xs) == Arr(SelectSeq(xs, LAMBDA x : ~IsError(x)))

\* xs.map(f) where f may throw: the array of results, or the first error
MapResult(xs) == IF AnyError(xs) THEN FirstError(xs) ELSE Arr(xs)

\* codec.decode(text, query); query is Undefined or [key |-> k, search |-> s].
\* The result is a value or a thrown error.
RECURSIVE CodecDecode(_, _, _)
ArrayDecode(codec, text, query) ==
  LET inner == codec.codec
      Each(texts) == MapResult([i \in 1..Len(texts) |-> CodecDecode(inner, texts[i], Undefined)])
      unsupported == Throw("CodecDecodeError",
                           "The \"" \o codec.format \o "\" format is only supported on query paramaters")
  IN IF text = "" /\ query = Undefined THEN Arr(<<>>)
     ELSE CASE codec.format = "delimited" -> Each(split(text, codec.delimiter))
            [] codec.format = "json" ->
                 IF startsWith(text, "[") /\ endsWith(text, "]")
                 THEN Each(split(SubSeq(text, 2, Len(text) - 1), ","))
                 ELSE Throw("CodecDecodeError",
                            "Invalid array format! Expected values to be on square brackets")
            [] codec.format = "key-square-brackets" ->
                 IF query /= Undefined
                 THEN Each(searchParamsGetAll(URL("http://localhost" \o query.search).searchParams,
                                              query.key \o "[]"))
                 ELSE unsupported
            [] codec.format = "repeat-key" ->
                 IF query /= Undefined
                 THEN Each(searchParamsGetAll(URL("http://localhost" \o query.search).searchParams,
                                              query.key))
                 ELSE unsupported

\* the `[${literals.join(", ")}]` of the literal codecs' messages
LiteralList(literals) ==
  "[" \o join([i \in 1..Len(literals) |-> JsString(literals[i])], ", ") \o "]"

\* a faulty variant: only the first literal is looked at
IsLiteralFirst(literals, value) == Len(literals) > 0 /\ literals[1] = value

\* literals.includes(value)
IsLiteral(literals, value) == \E i \in 1..Len(literals) : literals[i] = value

NumberLiteralDecode(codec, text) ==
  LET decoded == NumberDecode(text)
  IN IF IsError(decoded) THEN decoded
     ELSE IF IsLiteral(codec.literals, decoded) THEN decoded
     ELSE Throw("CodecDecodeError",
                "Literal value must be one of \"" \o LiteralList(codec.literals)
                  \o "\". Got \"" \o text \o "\" instead")

NumberLiteralEncode(codec, value) ==
  IF IsLiteral(codec.literals, value) THEN NumberEncode(value)
  ELSE Throw("CodecEncodeError",
             "Unable to encode \"" \o JsString(value) \o "\". A literal value of \""
               \o LiteralList(codec.literals) \o "\" was expected")

StringLiteralDecode(codec, text) ==
  IF IsLiteral(codec.literals, Str(text)) THEN Str(text)
  ELSE Throw("CodecDecodeError",
             "Literal value must be one of \"" \o LiteralList(codec.literals)
               \o "\". Got \"" \o text \o "\" instead")

StringLiteralEncode(codec, value) ==
  IF IsLiteral(codec.literals, value) THEN value
  ELSE Throw("CodecEncodeError",
             "Unable to encode \"" \o JsString(value) \o "\". A literal value of \""
               \o LiteralList(codec.literals) \o "\" was expected")

CodecDecode(codec, text, query) ==
  CASE codec.type = "Boolean" -> BooleanDecode(text)
    [] codec.type = "Number"  -> NumberDecode(text)
    [] codec.type = "String"  -> StringDecode(text)
    [] codec.type = "Date"    -> DateDecode(text)
    [] codec.type = "array"   -> ArrayDecode(codec, text, query)
    [] codec.type = "null"    ->
         IF text = "null" THEN Null ELSE CodecDecode(codec.codec, text, Undefined)
    [] codec.type = "undefined" ->
         IF text = "undefined" THEN Undefined ELSE CodecDecode(codec.codec, text, Undefined)
    [] codec.type = "numberLiteral" -> NumberLiteralDecode(codec, text)
    [] codec.type = "stringLiteral" -> StringLiteralDecode(codec, text)

\* codec.encode(value, key); key is a string value or Undefined.
\* The result is a string value or a thrown error.
RECURSIVE CodecEncode(_, _, _)
ArrayEncode(codec, value, key) ==
  IF IsArr(value)
  THEN IF Len(value.arr) = 0 THEN Str("")
       ELSE LET encoded == [i \in 1..Len(value.arr) |->
                              CodecEncode(codec.codec, value.arr[i], Undefined)]
                strings == [i \in 1..Len(encoded) |-> encoded[i].str]
            IN IF AnyError(encoded) THEN FirstError(encoded)
               ELSE CASE codec.format = "delimited" -> Str(join(strings, codec.delimiter))
                      [] codec.format = "json" -> Str("[" \o join(strings, ",") \o "]")
                      [] codec.format = "key-square-brackets" ->
                           Str(join([i \in 1..Len(strings) |->
                                       JsString(key) \o "[]=" \o strings[i]], "&"))
                      [] codec.format = "repeat-key" ->
                           Str(join([i \in 1..Len(strings) |->
                                       JsString(key) \o "=" \o strings[i]], "&"))
  ELSE Throw("CodecEncodeError",
             "Unable to encode \"" \o JsString(value) \o "\". An array value was expected")

CodecEncode(codec, value, key) ==
  CASE codec.type = "Boolean" -> BooleanEncode(value)
    [] codec.type = "Number"  -> NumberEncode(value)
    [] codec.type = "String"  -> StringEncode(value)
    [] codec.type = "Date"    -> DateEncode(value)
    [] codec.type = "array"   -> ArrayEncode(codec, value, key)
    [] codec.type = "null"    ->
         IF value = Null THEN Str("null") ELSE CodecEncode(codec.codec, value, Undefined)
    [] codec.type = "undefined" ->
         IF value = Undefined THEN Str("undefined") ELSE CodecEncode(codec.codec, value, Undefined)
    [] codec.type = "numberLiteral" -> NumberLiteralEncode(codec, value)
    [] codec.type = "stringLiteral" -> StringLiteralEncode(codec, value)

-----------------------------------------------------------------------------
(* Objects with ordered keys: sequences of [key |-> k, value |-> v].       *)

safeKeys(obj) == [i \in 1..Len(obj) |-> obj[i].key]

HasKey(obj, key) == \E i \in 1..Len(obj) : obj[i].key = key

\* obj[key], undefined when the key is absent
Prop(obj, key) ==
  IF HasKey(obj, key) THEN obj[CHOOSE i \in 1..Len(obj) : obj[i].key = key].value
  ELSE Undefined

\* a faulty variant: the entry is added even when the key exists
PutAppend(obj, key, value) == Append(obj, [key |-> key, value |-> value])

\* { ...obj, [key]: value }: an existing key keeps its place and takes the value
Put(obj, key, value) ==
  IF HasKey(obj, key)
  THEN [i \in 1..Len(obj) |-> IF obj[i].key = key THEN [key |-> key, value |-> value] ELSE obj[i]]
  ELSE Append(obj, [key |-> key, value |-> value])

\* { ...a, ...b }
RECURSIVE Spread(_, _)
Spread(a, b) ==
  IF Len(b) = 0 THEN a ELSE Spread(Put(a, b[1].key, b[1].value), Tail(b))

\* params[key] of a function from keys to values
Param(params, key) == IF key \in DOMAIN params THEN params[key] ELSE Undefined

-----------------------------------------------------------------------------
(* RoutewaysBuilder (src/lib/Routeways.ts, 859-978). A builder is its      *)
(* `routes` object. A route under construction is the record               *)
(*   [config |-> what $config() returns, template |-> what template()      *)
(*    returns, props |-> the sub-routes spread into the route object]      *)
(* (its placeholder makeUrl and parseUrl are never called by build()).     *)

\* Routeways(): new RoutewaysBuilder({ })
Routeways == <<>>

ConfigPathVars(config) == IF "pathVars" \in DOMAIN config THEN config.pathVars ELSE <<>>

ConfigQueryParams(config) == IF "queryParams" \in DOMAIN config THEN config.queryParams ELSE <<>>

\* a faulty variant: the entry is assigned into the receiver's own routes
\* object, which the returned builder shares
NewBuilderInPlace(objects, this, newRoutes) ==
  Append([objects EXCEPT ![this] = newRoutes], newRoutes)

\* new RoutewaysBuilder({ ...this.routes, [name]: route }): the object literal
\* is a fresh routes object and `routes` is private readonly, so the objects
\* that exist keep what they hold. `objects` are the routes objects of the
\* builders made so far, in the order of their construction.
NewBuilder(objects, this, newRoutes) == Append(objects, newRoutes)

\* builder.path(config)
path(this, config) ==
  Put(this, config.name,
      [config   |-> [pathVars    |-> ConfigPathVars(config),
                     queryParams |-> ConfigQueryParams(config),
                     segment     |-> config.path,
                     subRoutes   |-> <<>>],
       makeUrl  |-> config.path,
       template |-> config.path,
       props    |-> <<>>])

\* builder.nest(config); config.subRoutes is the sub-builder
nest(this, config) ==
  LET subRouteRecord == config.subRoutes
  IN Put(this, config.name,
         [config   |-> [pathVars    |-> ConfigPathVars(config),
                        queryParams |-> ConfigQueryParams(config),
                        segment     |-> config.path,
                        subRoutes   |-> subRouteRecord],
          makeUrl  |-> "",
          template |-> config.path,
          props    |-> subRouteRecord])

\* a faulty variant: the parent's path is dropped
FullPathOwnOnly(parentPath, route) == route.template

\* fullPath of injectParentData
FullPath(parentPath, route) == parentPath \o route.template

\* a faulty variant: the ancestors' path variables are dropped
AllPathVarsOwnOnly(pathVars, routeConfig) == routeConfig.pathVars

\* allPathVars of injectParentData
AllPathVars(pathVars, routeConfig) == Spread(pathVars, routeConfig.pathVars)

\* injectParentData(route, path, pathVars). Every turn of the reduce over the
\* route's keys assigns $config, makeUrl, parseUrl and template anew, and the
\* `template` that ends the object literal overrides the `[routeName]` of the
\* same literal, so the built route holds the four closures over routeConfig,
\* fullPath and allPathVars, and each sub-route built with fullPath and
\* allPathVars. The built route is the record of what the closures capture.
RECURSIVE injectParentData(_, _, _)
injectParentData(route, parentPath, pathVars) ==
  LET routeConfig == route.config
      fullPath    == FullPath(parentPath, route)
      allPathVars == AllPathVars(pathVars, routeConfig)
  IN [routeConfig |-> routeConfig,
      fullPath    |-> fullPath,
      allPathVars |-> allPathVars,
      props       |-> [i \in 1..Len(route.props) |->
                         [key   |-> route.props[i].key,
                          value |-> injectParentData(route.props[i].value, fullPath, allPathVars)]]]

\* builder.build()
build(this) ==
  [i \in 1..Len(this) |-> [key |-> this[i].key, value |-> injectParentData(this[i].value, "", <<>>)]]

\* a faulty variant: the full path is written into the sub-routes the
\* builder holds
BuiltInPlace(objects, this) ==
  LET Resolved(route) ==
        [route EXCEPT !.props =
           [j \in 1..Len(route.props) |->
              [key   |-> route.props[j].key,
               value |-> [route.props[j].value EXCEPT !.template = route.template \o @]]]]
  IN [objects EXCEPT ![this] =
        [i \in 1..Len(objects[this]) |->
           [key |-> objects[this][i].key, value |-> Resolved(objects[this][i].value)]]]

\* what build() leaves in the builders: both reduces (build and
\* injectParentData) start from a fresh { } and spread into new objects, so
\* the routes objects keep what they hold
Built(objects, this) == objects

-----------------------------------------------------------------------------
(* The behaviours of a built route (src/lib/Routeways.ts, 1000-1078).      *)
(* makeUrl and parseUrl return [value |-> the returned value or the thrown *)
(* error, invoked |-> the codec calls made, in order].                     *)

\* a faulty variant: the accumulated path variables are spread over the
\* query parameters too
dollarConfigSpreadAll(route) ==
  [pathVars    |-> route.allPathVars,
   queryParams |-> Spread(route.allPathVars, route.routeConfig.queryParams),
   segment     |-> route.routeConfig.segment,
   subRoutes   |-> route.routeConfig.subRoutes]

\* route.$config()
dollarConfig(route) ==
  [pathVars    |-> route.allPathVars,
   queryParams |-> route.routeConfig.queryParams,
   segment     |-> route.routeConfig.segment,
   subRoutes   |-> route.routeConfig.subRoutes]

\* route.template()
template(route) == route.fullPath

Invocation(op, key) == [op |-> op, key |-> key]

\* joinChar of makeUrl
JoinChar(search) == IF search = "?" THEN "" ELSE "&"

\* what makeUrl appends to the search string for one encoded query parameter
QueryFragment(key, encodedValue) ==
  IF includes(encodedValue, key \o "=") THEN encodeURI(encodedValue)
  ELSE key \o "=" \o encodeURIComponent(encodedValue)

\* the reduce of makeUrl that builds the search string, over queryKeys[i..]
RECURSIVE MakeQuery(_, _, _, _, _)
MakeQuery(route, params, queryKeys, i, acc) ==
  IF i > Len(queryKeys) \/ IsError(acc.value) THEN acc
  ELSE LET key        == queryKeys[i]
           codec      == Prop(route.routeConfig.queryParams, key)
           paramValue == Param(params, key)
           search     == acc.value.str
       IN IF codec /= Undefined /\ paramValue /= Undefined
          THEN LET encoded == CodecEncode(codec, paramValue, Str(key))
                   next    == IF IsError(encoded) THEN encoded
                              ELSE Str(search \o JoinChar(search)
                                       \o QueryFragment(key, encoded.str))
               IN MakeQuery(route, params, queryKeys, i + 1,
                            [value   |-> next,
                             invoked |-> Append(acc.invoked, Invocation("encode", key))])
          ELSE MakeQuery(route, params, queryKeys, i + 1, acc)

\* the reduce of makeUrl that fills the path variables in, over keys[i..]
RECURSIVE MakeBase(_, _, _, _, _)
MakeBase(route, params, keys, i, acc) ==
  IF i > Len(keys) \/ IsError(acc.value) THEN acc
  ELSE LET key        == keys[i]
           paramValue == Param(params, key)
           codec      == Prop(route.allPathVars, key)
           encoded    == CodecEncode(codec, paramValue, Undefined)
       IN MakeBase(route, params, keys, i + 1,
                   [value   |-> IF IsError(encoded) THEN encoded
                                ELSE Str(replaceAll(acc.value.str, ":" \o key, encoded.str)),
                    invoked |-> Append(acc.invoked, Invocation("encode", key))])

\* a faulty variant: the route's own segment is returned
NoParamsUrlOwnSegment(route) == route.routeConfig.segment

\* what makeUrl returns when params is undefined
NoParamsUrl(route) == route.fullPath

\* route.makeUrl(params); params is Undefined when no argument is given
makeUrl(route, params) ==
  IF params = Undefined THEN [value |-> Str(NoParamsUrl(route)), invoked |-> <<>>]
  ELSE LET queryKeys   == SelectSeq(safeKeys(route.routeConfig.queryParams),
                                    LAMBDA key : key \in DOMAIN params)
           queryParams == MakeQuery(route, params, queryKeys, 1,
                                    [value |-> Str("?"), invoked |-> <<>>])
           baseUrl     == MakeBase(route, params, safeKeys(route.allPathVars), 1,
                                   [value |-> Str(route.fullPath), invoked |-> queryParams.invoked])
       IN IF IsError(queryParams.value) THEN queryParams
          ELSE IF IsError(baseUrl.value) THEN baseUrl
          ELSE [value   |-> Str(baseUrl.value.str
                                \o (IF Len(queryKeys) > 0 THEN queryParams.value.str ELSE "")),
                invoked |-> baseUrl.invoked]

\* the reduce of parseUrl that decodes the path variables, over keys[i..]
RECURSIVE ParsePathVars(_, _, _, _, _, _)
ParsePathVars(route, templateChunks, pathnameChunks, keys, i, acc) ==
  IF i > Len(keys) \/ IsError(acc.value) THEN acc
  ELSE LET key           == keys[i]
           templateIndex == indexOf(templateChunks, ":" \o key)
           hasPathVar    == templateIndex >= 0 /\ templateIndex < Len(pathnameChunks)
           codec         == Prop(route.allPathVars, key)
       IN IF hasPathVar
          THEN LET decoded == CodecDecode(codec, pathnameChunks[templateIndex + 1], Undefined)
               IN ParsePathVars(route, templateChunks, pathnameChunks, keys, i + 1,
                    [value   |-> IF IsError(decoded) THEN decoded
                                 ELSE (key :> decoded) @@ acc.value,
                     invoked |-> Append(acc.invoked, Invocation("decode", key))])
          ELSE ParsePathVars(route, templateChunks, pathnameChunks, keys, i + 1, acc)

\* the reduce of parseUrl that decodes the query parameters, over keys[i..]
RECURSIVE ParseQuery(_, _, _, _, _)
ParseQuery(route, url, keys, i, acc) ==
  IF i > Len(keys) \/ IsError(acc.value) THEN acc
  ELSE LET key   == keys[i]
           codec == Prop(route.routeConfig.queryParams, key)
           first == searchParamsGet(url.searchParams, key)
       IN IF first /= Null /\ first.str /= "" /\ codec /= Undefined
          THEN LET decoded == CodecDecode(codec, first.str, [key |-> key, search |-> url.search])
               IN ParseQuery(route, url, keys, i + 1,
                    [value   |-> IF IsError(decoded) THEN decoded
                                 ELSE (key :> decoded) @@ acc.value,
                     invoked |-> Append(acc.invoked, Invocation("decode", key))])
          ELSE ParseQuery(route, url, keys, i + 1, acc)

\* a faulty variant: a chunk is compared as a prefix
ChunckMatchesPrefix(pathnameChunks, chunck, i) ==
  \/ (i <= Len(pathnameChunks) /\ startsWith(pathnameChunks[i], chunck))
  \/ startsWith(chunck, ":")

\* the callback of templateChunks.every(..); i is the 1-based position
ChunckMatches(pathnameChunks, chunck, i) ==
  \/ (i <= Len(pathnameChunks) /\ pathnameChunks[i] = chunck)
  \/ startsWith(chunck, ":")

UrlParserErrorMessage(uri, fullPath) ==
  "Unable to parse \"" \o uri \o "\". The url does not match the template \""
    \o fullPath \o "\""

\* route.parseUrl(uri)
\* what parseUrl returns: the first error thrown, or { pathVars, queryParams }
ParsedUrl(pathVars, queryParams) ==
  IF IsError(pathVars.value) THEN pathVars
  ELSE IF IsError(queryParams.value) THEN queryParams
  ELSE [value   |-> [pathVars |-> pathVars.value, queryParams |-> queryParams.value],
        invoked |-> queryParams.invoked]

\* the query parameters are decoded after the path variables
ParseParams(route, url, pathVars) ==
  ParsedUrl(pathVars,
            ParseQuery(route, url, safeKeys(route.routeConfig.queryParams), 1,
                       [value |-> <<>>, invoked |-> pathVars.invoked]))

parseUrl(route, uri) ==
  LET url             == URL(IF startsWith(uri, "http") THEN uri ELSE "http://localhost" \o uri)
      pathnameChunks  == split(url.pathname, "/")
      templateChunks  == split(route.fullPath, "/")
      allChuncksMatch == \A i \in 1..Len(templateChunks) :
                            ChunckMatches(pathnameChunks, templateChunks[i], i)
  IN IF Len(pathnameChunks) = Len(templateChunks) /\ allChuncksMatch
     THEN ParseParams(route, url,
                      ParsePathVars(route, templateChunks, pathnameChunks,
                                    safeKeys(route.allPathVars), 1,
                                    [value |-> <<>>, invoked |-> <<>>]))
     ELSE [value   |-> Throw("UrlParserError", UrlParserErrorMessage(uri, route.fullPath)),
           invoked |-> <<>>]

-----------------------------------------------------------------------------
(* The route definitions the builder is given: the shapes of the           *)
(* repository's TestRoutes (static nesting, path variables accumulated     *)
(* over four levels, own query parameters, array query parameters in the   *)
(* four formats).                                                          *)

Entry(key, value) == [key |-> key, value |-> value]

UsersConfig ==
  [name |-> "users", path |-> "/users",
   queryParams |-> <<Entry("roles", array(StringCodec, <<>>))>>,
   subRoutes |->
     nest(Routeways,
          [name |-> "edit", path |-> "/edit",
           subRoutes |->
             path(Routeways,
                  [name |-> "profile", path |-> "/profile",
                   queryParams |->
                     <<Entry("langs", array(NumberCodec, [format |-> "delimited",
                                                          delimiter |-> ";"]))>>])])]

LibraryConfig ==
  [name |-> "library", path |-> "/library/:libId",
   pathVars |-> <<Entry("libId", NumberCodec)>>,
   queryParams |-> <<Entry("limit", BooleanCodec), Entry("page", NumberCodec)>>,
   subRoutes |->
     nest(path(Routeways,
               [name |-> "about", path |-> "/about/:tab",
                pathVars |-> <<Entry("tab", StringCodec)>>]),
          [name |-> "author", path |-> "/author/:authorId",
           pathVars |-> <<Entry("authorId", NumberCodec)>>,
           queryParams |-> <<Entry("tab", StringCodec)>>,
           subRoutes |->
             nest(Routeways,
                  [name |-> "collection", path |-> "/collection/:collectionId",
                   pathVars |-> <<Entry("collectionId", StringCodec)>>,
                   subRoutes |->
                     path(Routeways,
                          [name |-> "tome", path |-> "/tome/:tomeId",
                           pathVars |-> <<Entry("tomeId", StringCodec)>>])])])]

SearchConfig ==
  [name |-> "search", path |-> "/search",
   queryParams |-> <<Entry("tags", array(StringCodec, [format |-> "repeat-key"])),
                     Entry("ids", array(NumberCodec, [format |-> "key-square-brackets"]))>>]

\* the routes given to path(): the search route, and a route that has two
\* path variables, the name of one a prefix of the other's
PathConfigs ==
  {SearchConfig,
   [name |-> "item", path |-> "/item/:id/:idx",
    pathVars |-> <<Entry("id", NumberCodec), Entry("idx", NumberCodec)>>]}

NestConfigs == {UsersConfig, LibraryConfig}

-----------------------------------------------------------------------------
(* The arguments the calls are made with.                                  *)

ElementValues(codec) ==
  CASE codec.type = "Number" -> {Num(1), Num(2)}
    [] codec.type = "String" -> {Str("a b"), Str("")}
    [] codec.type = "Boolean" -> {Bool(TRUE)}
    [] OTHER -> {}

\* the values a parameter of that codec is given
Values(codec) ==
  CASE codec.type = "Number"  -> {Num(1), Num(2)}
    [] codec.type = "String"  -> {Str("info"), Str("tab one"), Str(":tomeId"), Str("tab=x")}
    [] codec.type = "Boolean" -> {Bool(TRUE), Bool(FALSE)}
    [] codec.type = "array"   ->
         {Arr(xs) : xs \in UNION {[1..n -> ElementValues(codec.codec)] : n \in 0..MaxArrayLen}}

\* every assignment of a value to each key of the codec map
RECURSIVE Required(_)
Required(codecs) ==
  IF Len(codecs) = 0 THEN {<<>>}
  ELSE {(codecs[1].key :> v) @@ f : v \in Values(codecs[1].value), f \in Required(Tail(codecs))}

\* every assignment of a value or of undefined to some keys of the codec map
RECURSIVE Optional(_)
Optional(codecs) ==
  IF Len(codecs) = 0 THEN {<<>>}
  ELSE LET rest == Optional(Tail(codecs))
       IN rest \cup {(codecs[1].key :> v) @@ f :
                       v \in Values(codecs[1].value) \cup {Undefined}, f \in rest}

\* the params makeUrl is called with on a built route: no argument, or the
\* path variables (all of them, or none) with any of the own query parameters
ParamsOf(route) ==
  {Undefined} \cup {p @@ q : p \in Required(route.allPathVars) \cup {<<>>},
                            q \in Optional(route.routeConfig.queryParams)}

\* the URLs parseUrl is called with
Uris ==
  {"/users", "/users/edit", "/users/edit/profile", "/users/edit/profile/other",
   "/edit/users/profile", "/foo", "/users/foo", "/users/editor", "/users/edit/profile/",
   "/users?roles=[a,b]", "/users?roles=%5Bone%2Ctwo%5D", "/users?roles=",
   "/users/edit/profile?langs=1;2", "/users/edit/profile?langs=",
   "/users/edit/profile#top",
   "/library/3", "/library/1?limit=true&page=3", "/library/abc", "/library/1?page=x",
   "/library/1/about/a b", "/library/1/author/4?tab=info", "/library/1/author/4?tab=",
   "/library/1/author/4?limit=true&other=x", "/library/1/author/4?tab=one&tab=two",
   "/library/1/author/4?tab=hello%20world!", "/library//author/4",
   "/library/1/author/x?tab=info", "/library/3/author/2/collection/LOTR",
   "/library/3/author/2/collection/LOTR/tome/4gfd-adf5",
   "http://example.com/library/1?limit=false",
   "/search", "/search?tags=a&tags=b", "/search?tags=a%20b", "/search?tags=a+b",
   "/search?tags=", "/search?tags=&tags=b", "/search?ids[]=1&ids[]=2",
   "/search?ids=1&ids=2", "/search?ids=", "/search?ids=7&ids[]=1&ids[]=2",
   "/search?tags=a&ids[]=1"}

-----------------------------------------------------------------------------
(* The built tree: a route is named by the names from the root to it.      *)

\* the names of every route of a tree of routes, built or under construction
RECURSIVE RouteNames(_)
RouteNames(tree) ==
  UNION {{<<tree[i].key>>} \cup {<<tree[i].key>> \o names : names \in RouteNames(tree[i].value.props)}
         : i \in 1..Len(tree)}

\* routes.a.b.c
RECURSIVE RouteAt(_, _)
RouteAt(tree, names) ==
  IF Len(names) = 1 THEN Prop(tree, names[1])
  ELSE RouteAt(Prop(tree, names[1]).props, Tail(names))

-----------------------------------------------------------------------------
(* The state machine. builder is the routes object of the builder chain,   *)
(* routes the tree build() returned, as [tree |-> ...] (Undefined before   *)
(* build() is called), call the call being made on a route of the tree,    *)
(* result what it returned or threw (value) and the codec calls it made    *)
(* (invoked). The calls are made one at a time. heap is the routes objects *)
(* of the builders a program holds, Codecs the codec registry, location,   *)
(* hook and navigated the state of the React hooks.                        *)

\* the Codecs object: its own properties, in order. The properties of the
\* object literal are writable, enumerable and configurable; a factory is
\* the record [factory |-> its name].
CodecsType ==
  LET Property(key, value) ==
        [key |-> key, value |-> value,
         writable |-> TRUE, enumerable |-> TRUE, configurable |-> TRUE]
  IN <<Property("Boolean", BooleanCodec), Property("Date", DateCodec),
       Property("Number", NumberCodec), Property("String", StringCodec),
       Property("array", [factory |-> "array"]), Property("null", [factory |-> "null"]),
       Property("nullish", [factory |-> "nullish"]),
       Property("numberLiteral", [factory |-> "numberLiteral"]),
       Property("stringLiteral", [factory |-> "stringLiteral"]),
       Property("undefined", [factory |-> "undefined"])>>

\* Object.defineProperty(obj, name, { value }): a new property is created
\* with writable, enumerable and configurable false; an existing property
\* takes the value and keeps its attributes, unless it is neither
\* configurable nor writable and holds another value, which is a TypeError.
\* The result is [object |-> the object after the call], or the thrown error.
defineProperty(obj, name, value) ==
  IF ~HasKey(obj, name)
  THEN [object |-> Append(obj, [key |-> name, value |-> value, writable |-> FALSE,
                                enumerable |-> FALSE, configurable |-> FALSE])]
  ELSE IF \E i \in 1..Len(obj) :
            /\ obj[i].key = name
            /\ ~obj[i].configurable /\ ~obj[i].writable /\ obj[i].value /= value
    THEN Throw("TypeError", "Cannot redefine property: " \o name)
  ELSE [object |-> [i \in 1..Len(obj) |->
                      IF obj[i].key = name THEN [obj[i] EXCEPT !.value = value] ELSE obj[i]]]

\* no location yet, and no hook rendered
NoLocation == [pathname |-> "/", search |-> "", hash |-> ""]

NoHook == [kind |-> "none"]

NoCall == [op |-> "none", route |-> <<>>, arg |-> Undefined]

NoResult == [value |-> Undefined, invoked |-> <<>>]

Init ==
  /\ builder = Routeways
  /\ routes = Undefined
  /\ call = NoCall
  /\ result = NoResult
  /\ heap = <<Routeways>>
  /\ Codecs = CodecsType
  /\ location = NoLocation
  /\ hook = NoHook
  /\ navigated = <<>>

Path(cfg) ==
  /\ routes = Undefined
  /\ Len(path(builder, cfg)) <= MaxRoutes
  /\ builder' = path(builder, cfg)
  /\ UNCHANGED <<routes, call, result, heap, Codecs, location, hook, navigated>>

Nest(cfg) ==
  /\ routes = Undefined
  /\ Len(nest(builder, cfg)) <= MaxRoutes
  /\ builder' = nest(builder, cfg)
  /\ UNCHANGED <<routes, call, result, heap, Codecs, location, hook, navigated>>

Build ==
  /\ routes = Undefined
  /\ routes' = [tree |-> build(builder)]
  /\ UNCHANGED <<builder, call, result, heap, Codecs, location, hook, navigated>>

\* the names of the routes of the built tree; none before build()
BuiltRoutes == IF routes = Undefined THEN {} ELSE RouteNames(routes.tree)

Config(names) ==
  /\ call = NoCall
  /\ call' = [op |-> "$config", route |-> names, arg |-> Undefined]
  /\ result' = [value |-> dollarConfig(RouteAt(routes.tree, names)), invoked |-> <<>>]
  /\ UNCHANGED <<builder, routes, heap, Codecs, location, hook, navigated>>

Template(names) ==
  /\ call = NoCall
  /\ call' = [op |-> "template", route |-> names, arg |-> Undefined]
  /\ result' = [value |-> Str(template(RouteAt(routes.tree, names))), invoked |-> <<>>]
  /\ UNCHANGED <<builder, routes, heap, Codecs, location, hook, navigated>>

MakeUrl(names, params) ==
  /\ call = NoCall
  /\ call' = [op |-> "makeUrl", route |-> names, arg |-> params]
  /\ result' = makeUrl(RouteAt(routes.tree, names), params)
  /\ UNCHANGED <<builder, routes, heap, Codecs, location, hook, navigated>>

ParseUrl(names, uri) ==
  /\ call = NoCall
  /\ call' = [op |-> "parseUrl", route |-> names, arg |-> Str(uri)]
  /\ result' = parseUrl(RouteAt(routes.tree, names), uri)
  /\ UNCHANGED <<builder, routes, heap, Codecs, location, hook, navigated>>

\* the caller takes the result: the next call can be made
Return ==
  /\ call /= NoCall
  /\ call' = NoCall
  /\ result' = NoResult
  /\ UNCHANGED <<builder, routes, heap, Codecs, location, hook, navigated>>

Next ==
  \/ \E cfg \in PathConfigs : Path(cfg)
  \/ \E cfg \in NestConfigs : Nest(cfg)
  \/ Build
  \/ \E names \in BuiltRoutes : Config(names)
  \/ \E names \in BuiltRoutes : Template(names)
  \/ \E names \in BuiltRoutes : \E params \in ParamsOf(RouteAt(routes.tree, names)) :
        MakeUrl(names, params)
  \/ \E names \in BuiltRoutes : \E uri \in Uris : ParseUrl(names, uri)
  \/ Return

Spec == Init /\ [][Next]_vars

-----------------------------------------------------------------------------
(* The codecs called on their own: Codecs.X.decode(text, query) and        *)
(* Codecs.X.encode(value, key).                                            *)

MaxElements == 3

PrimitiveCodecs == {BooleanCodec, NumberCodec, StringCodec, DateCodec}

LiteralCodecs ==
  {numberLiteral(<<Num(1), Num(2), Num(3)>>), stringLiteral(<<Str("foo"), Str("true")>>)}

ArrayCodecs ==
  {array(codec, <<>>) : codec \in {NumberCodec, StringCodec, BooleanCodec}}
    \cup {array(codec, [format |-> format]) :
            codec \in {NumberCodec, StringCodec},
            format \in {"delimited", "repeat-key", "key-square-brackets"}}
    \cup {array(NumberCodec, [format |-> "delimited", delimiter |-> ";"])}

\* codecs made of codecs: wrappers around arrays, arrays of wrappers
\* the codecs of the calls: the primitives, each of them wrapped, the
\* literals, the arrays, and wrappers and arrays nested in each other
AllCodecs ==
  PrimitiveCodecs \cup LiteralCodecs \cup ArrayCodecs
    \cup UNION {{null(codec), undefined(codec), nullish(codec)} : codec \in PrimitiveCodecs}
    \cup {null(array(NumberCodec, <<>>)), array(null(NumberCodec), <<>>),
          array(nullish(BooleanCodec), <<>>), nullish(array(BooleanCodec, [format |-> "delimited"]))}

\* a few values the codec encodes
RECURSIVE SamplesFor(_)
SamplesFor(codec) ==
  CASE codec.type = "Number"    -> {Num(1), Num(2), Num(3)}
    [] codec.type = "String"    -> {Str(""), Str("a,b")}
    [] codec.type = "Boolean"   -> {Bool(TRUE), Bool(FALSE)}
    [] codec.type = "null"      -> {Null} \cup SamplesFor(codec.codec)
    [] codec.type = "undefined" -> {Undefined} \cup SamplesFor(codec.codec)
    [] OTHER                    -> {}

\* the array codec among the codec and the codecs it wraps, if any
RECURSIVE ArrayWithin(_)
ArrayWithin(codec) ==
  IF codec.type = "array" THEN {codec}
  ELSE IF codec.type \in {"null", "undefined"} THEN ArrayWithin(codec.codec)
  ELSE {}

\* the values encode is called with: the scalars, two arrays and, for an
\* array codec, the arrays of its inner codec's samples and of a value the
\* inner codec rejects
EncodeValues(codec) ==
  {Bool(TRUE), Bool(FALSE),
   Num(10), Num(-20), Num(0), Num(1), Num(2), Num(3), Decimal(5, 1), Decimal(-1, 1),
   Infinity, Negate(Infinity), NaN,
   Str(""), Str("foo"), Str("some"), Str("null"), Str("undefined"), Str("true"), Str("a,b"),
   DateValue(19087, 84615150), DateValue(0, 0), DateValue(-1, 86399999), DateValue(11016, 0),
   InvalidDate, Null, Undefined,
   Arr(<<>>), Arr(<<Num(1), Num(2)>>)}
    \cup UNION {{Arr(xs) : xs \in UNION {[1..n -> SamplesFor(a.codec) \cup {Arr(<<>>)}] :
                                           n \in 0..MaxElements}} :
                 a \in ArrayWithin(codec)}

\* the texts decode is called with
DecodeTexts ==
  {"", " ", "true", "false", "True", "TRUE", "some", "foo", "null", "undefined",
   "10", "-20", "0.5", "-0.1", "Infinity", "-Infinity", "NaN", " 12 ", "0x1F", "1e3", "4",
   "2022-04-05T23:30:15.150Z", "2022-04-05T18:30:15.150-05:00", "2000-02-29", "2023-02-29",
   "[1,2,3]", "[1,2,]", "[]", "[,]", "[true,null]", "1,2,3", "1;2", "[foo", "true,foo"}

\* the query contexts decode is called with: none, or {key, search}
DecodeQueries ==
  {Undefined,
   [key |-> "k", search |-> "?k=1&k=2"],
   [key |-> "k", search |-> "?k[]=1&k[]=2&k=3"],
   [key |-> "k", search |-> "?k=1&k=foo"],
   [key |-> "k", search |-> "?other=1"],
   [key |-> "k", search |-> ""]}

\* codec.decode(text, query)
Decode(codec, text, query) ==
  /\ call = NoCall
  /\ call' = [op |-> "decode", codec |-> codec, arg |-> Str(text), query |-> query]
  /\ result' = [value |-> CodecDecode(codec, text, query), invoked |-> <<>>]
  /\ UNCHANGED <<builder, routes, heap, Codecs, location, hook, navigated>>

\* codec.encode(value, key)
Encode(codec, value, key) ==
  /\ call = NoCall
  /\ call' = [op |-> "encode", codec |-> codec, arg |-> value, key |-> key]
  /\ result' = [value |-> CodecEncode(codec, value, key), invoked |-> <<>>]
  /\ UNCHANGED <<builder, routes, heap, Codecs, location, hook, navigated>>

CodecsNext ==
  \/ \E codec \in AllCodecs, text \in DecodeTexts, query \in DecodeQueries :
       Decode(codec, text, query)
  \/ \E codec \in AllCodecs :
       \E value \in EncodeValues(codec), key \in {Undefined, Str("k")} : Encode(codec, value, key)
  \/ Return

CodecsSpec == Init /\ [][CodecsNext]_vars

-----------------------------------------------------------------------------
(* Builders as objects. heap[b] is the routes object of the b-th builder   *)
(* constructed; heap[1] is the one Routeways() returns. path and nest are  *)
(* called on any builder made so far, and nest takes any of them as its    *)
(* subRoutes, so an earlier builder stays in use after later calls.        *)

MaxBuilders == 4

PathOn(this, cfg) ==
  /\ call = NoCall
  /\ Len(heap) < MaxBuilders
  /\ call' = [op |-> "path", this |-> this, arg |-> cfg]
  /\ heap' = NewBuilder(heap, this, path(heap[this], cfg))
  /\ result' = [value |-> [ref |-> Len(heap')], invoked |-> <<>>]
  /\ UNCHANGED <<builder, routes, Codecs, location, hook, navigated>>

NestOn(this, sub, cfg) ==
  /\ call = NoCall
  /\ Len(heap) < MaxBuilders
  /\ call' = [op |-> "nest", this |-> this, sub |-> sub, arg |-> cfg]
  /\ heap' = NewBuilder(heap, this, nest(heap[this], [name |-> cfg.name, path |-> cfg.path, subRoutes |-> heap[sub]]))
  /\ result' = [value |-> [ref |-> Len(heap')], invoked |-> <<>>]
  /\ UNCHANGED <<builder, routes, Codecs, location, hook, navigated>>

\* build() on a builder; `again` tells that the caller still holds the tree
\* of the build() it has just made on the same builder
BuildOn(this) ==
  /\ call.op \in {"none", "build"}
  /\ call' = [op |-> "build", this |-> this, arg |-> Undefined,
              again |-> call.op = "build" /\ call.this = this]
  /\ result' = [value |-> [tree |-> build(heap[this])], invoked |-> <<>>]
  /\ heap' = Built(heap, this)
  /\ UNCHANGED <<builder, routes, Codecs, location, hook, navigated>>

BuildersNext ==
  \/ \E this \in 1..Len(heap) :
        \E cfg \in {[name |-> "home", path |-> "/home"], SearchConfig} : PathOn(this, cfg)
  \/ \E this \in 1..Len(heap) : \E sub \in 1..Len(heap) :
        \E cfg \in {[name |-> "users", path |-> "/users"], [name |-> "home", path |-> "/main"]} :
          NestOn(this, sub, cfg)
  \/ \E this \in 1..Len(heap) : BuildOn(this)
  \/ Return

BuildersSpec == Init /\ [][BuildersNext]_vars

-----------------------------------------------------------------------------
(* The codec registry: addCodec(name, codec) on the Codecs object          *)
(* (src/lib/Codecs.ts, 381-391).                                           *)

\* addCodec(name, codec); codec is a codec or a factory
AddCodec(name, codec) ==
  /\ call = NoCall
  /\ call' = [op |-> "addCodec", name |-> name, arg |-> codec]
  /\ result' = [value   |-> IF IsError(defineProperty(Codecs, name, codec))
                            THEN defineProperty(Codecs, name, codec) ELSE Undefined,
                invoked |-> <<>>]
  /\ Codecs' = IF IsError(defineProperty(Codecs, name, codec)) THEN Codecs
               ELSE defineProperty(Codecs, name, codec).object
  /\ UNCHANGED <<builder, routes, heap, location, hook, navigated>>

RegistryNext ==
  \/ \E name \in {"Foo", "makeFoo", "Number", "array"} :
        \E codec \in {[type |-> "Foo"], [type |-> "Bar"], [factory |-> "makeFoo"], StringCodec} :
          AddCodec(name, codec)
  \/ Return

RegistrySpec == Init /\ [][RegistryNext]_vars

-----------------------------------------------------------------------------
(* The React hooks (src/lib/react/hookMakers.ts) on a built tree.          *)
(* location is what getLocation() returned to the last render, hook the    *)
(* hook a component holds: its kind, route, key and fallback, the value of *)
(* its useState, the path variables of its useMemo, and whether an effect  *)
(* is to run and after what (the mount or the setter); navigated is the    *)
(* calls of the navigate function, each [to, options].                     *)

\* calls of the navigate function that are kept
MaxNavigations == 2

\* pathname.concat(hash, search)
LocationUrl(loc) == loc.pathname \o loc.hash \o loc.search

\* the initializer of useState: route.parseUrl(..).queryParams, and for
\* makeQueryParamHook queryParams[key] ?? fallback
InitialState(kind, key, fallback, queryParams) ==
  IF kind = "queryParam"
  THEN IF Param(queryParams, key) \in {Undefined, Null} THEN fallback
       ELSE Param(queryParams, key)
  ELSE queryParams

\* the first render of a hook on a route, getLocation() returning loc
Mount(kind, names, key, fallback, parsed) ==
  /\ hook' = IF IsError(parsed.value) THEN NoHook
             ELSE [kind     |-> kind,
                   route    |-> names,
                   key      |-> key,
                   fallback |-> fallback,
                   state    |-> InitialState(kind, key, fallback, parsed.value.queryParams),
                   pathVars |-> parsed.value.pathVars,
                   effect   |-> "mount"]
  /\ result' = [value |-> IF IsError(parsed.value) THEN parsed.value ELSE Undefined,
                invoked |-> <<>>]

UseHook(kind, names, key, fallback, loc) ==
  /\ hook = NoHook
  /\ call = NoCall
  /\ Len(navigated) < MaxNavigations
  /\ location' = loc
  /\ Mount(kind, names, key, fallback, parseUrl(RouteAt(routes.tree, names), LocationUrl(loc)))
  /\ UNCHANGED <<builder, routes, call, heap, Codecs, navigated>>

\* the params the effect of makeQueryParamHook and of makeAllQueryParamsHook
\* gives to route.makeUrl; parsed is what parseUrl returned for the location
\* of the render
EffectParams(parsed) ==
  IF hook.kind = "queryParam"
  THEN (hook.key :> hook.state) @@ parsed.queryParams @@ parsed.pathVars
  ELSE hook.state @@ parsed.pathVars

\* navigateFn(url), or what the effect threw
Navigated(url) ==
  /\ navigated' = IF IsError(url.value) THEN navigated
                  ELSE Append(navigated, [to |-> url.value.str, options |-> Undefined])
  /\ result' = [value |-> IF IsError(url.value) THEN url.value ELSE Undefined,
                invoked |-> <<>>]

\* the callback of useEffect, after the render that changed its dependency;
\* the effect of makeRouteParamsHook takes the path variables of its useMemo
\* and parses nothing
Effect(route, parsed) ==
  IF hook.kind = "routeParams" THEN Navigated(makeUrl(route, hook.state @@ hook.pathVars))
  ELSE IF IsError(parsed.value) THEN Navigated(parsed)
  ELSE Navigated(makeUrl(route, EffectParams(parsed.value)))

RunEffect ==
  /\ hook /= NoHook
  /\ hook.effect \in {"mount", "set"}
  /\ Effect(RouteAt(routes.tree, hook.route),
            parseUrl(RouteAt(routes.tree, hook.route), LocationUrl(location)))
  /\ hook' = [hook EXCEPT !.effect = IF hook.effect = "mount" THEN "mounted" ELSE "done"]
  /\ UNCHANGED <<builder, routes, call, heap, Codecs, location>>

\* the setter of useState called with a value, and the render that follows,
\* getLocation() returning loc: React renders again unless the value is the
\* one the state holds (Object.is); an object given to the setter is a new
\* object
SetState(value, loc) ==
  /\ hook /= NoHook
  /\ hook.effect \in {"mounted", "done"}
  /\ Len(navigated) < MaxNavigations
  /\ hook.kind = "queryParam" => value /= hook.state
  /\ hook' = [hook EXCEPT !.state = value, !.effect = "set"]
  /\ location' = loc
  /\ UNCHANGED <<builder, routes, call, result, heap, Codecs, navigated>>

\* the component is unmounted, with its hook or after the call it made on
\* the navigator, and the record of the navigate function is reset
Unmount ==
  /\ \/ hook /= NoHook /\ hook.effect \in {"mounted", "done"}
     \/ call.op \in {"navigate", "replace"}
  /\ hook' = NoHook
  /\ call' = NoCall
  /\ result' = NoResult
  /\ navigated' = <<>>
  /\ UNCHANGED <<builder, routes, heap, Codecs, location>>

\* the route a navigator entry closes over: routesAsNavigator(routes) holds
\* the built routes, and under each entry
\* routesAsNavigator(route.$config().subRoutes), the routes as path() and
\* nest() made them
RECURSIVE SubRouteAt(_, _)
SubRouteAt(subRoutes, names) ==
  IF Len(names) = 1 THEN Prop(subRoutes, names[1])
  ELSE SubRouteAt(Prop(subRoutes, names[1]).config.subRoutes, Tail(names))

\* route.makeUrl(params) of the route of a navigator entry; the makeUrl of a
\* route as path() and nest() made it takes no params
NavigatorUrl(tree, names, params) ==
  IF Len(names) = 1 THEN makeUrl(Prop(tree, names[1]), params)
  ELSE [value   |-> Str(SubRouteAt(dollarConfig(Prop(tree, names[1])).subRoutes,
                                   Tail(names)).makeUrl),
        invoked |-> <<>>]

\* navigator.a.b.navigate(params) and navigator.a.b.replace(params)
Navigate(names, params, replace, url) ==
  /\ call = NoCall
  /\ hook = NoHook
  /\ Len(navigated) < MaxNavigations
  /\ call' = [op |-> IF replace THEN "replace" ELSE "navigate", route |-> names, arg |-> params]
  /\ result' = [value |-> IF IsError(url.value) THEN url.value ELSE Undefined,
                invoked |-> url.invoked]
  /\ navigated' = IF IsError(url.value) THEN navigated
                  ELSE Append(navigated, [to |-> url.value.str, options |-> [replace |-> replace]])
  /\ UNCHANGED <<builder, routes, heap, Codecs, location, hook>>

\* the locations getLocation() returns
Locations ==
  {[pathname |-> "/users", search |-> "", hash |-> ""],
   [pathname |-> "/users", search |-> "?roles=[a,b]", hash |-> "#top"],
   [pathname |-> "/library/1", search |-> "?limit=true&page=2", hash |-> ""],
   [pathname |-> "/library/1", search |-> "?limit=true", hash |-> "#top"],
   [pathname |-> "/library/2/author/4", search |-> "?tab=info", hash |-> ""],
   [pathname |-> "/library/2/author/4", search |-> "?tab=info", hash |-> "#bio"]}

\* the values given to the setter of a hook
SetValues(route) ==
  IF hook.kind = "queryParam"
  THEN Values(Prop(route.routeConfig.queryParams, hook.key)) \cup {Undefined}
  ELSE Optional(route.routeConfig.queryParams)

\* the tree the hooks are made for is built: the users and library routes
HooksInit ==
  /\ builder = nest(nest(Routeways, UsersConfig), LibraryConfig)
  /\ routes = [tree |-> build(builder)]
  /\ call = NoCall
  /\ result = NoResult
  /\ heap = <<Routeways>>
  /\ Codecs = CodecsType
  /\ location = NoLocation
  /\ hook = NoHook
  /\ navigated = <<>>

HooksNext ==
  \/ \E names \in BuiltRoutes, loc \in Locations :
       \/ \E key \in {dollarConfig(RouteAt(routes.tree, names)).queryParams[i].key :
                         i \in 1..Len(dollarConfig(RouteAt(routes.tree, names)).queryParams)},
             fallback \in {Undefined, Num(1)} :
            UseHook("queryParam", names, key, fallback, loc)
       \/ \E kind \in {"allQueryParams", "routeParams"} :
            UseHook(kind, names, "", Undefined, loc)
  \/ RunEffect
  \/ /\ hook /= NoHook
     /\ \E loc \in Locations : \E value \in SetValues(RouteAt(routes.tree, hook.route)) :
          SetState(value, loc)
  \/ Unmount
  \/ \E names \in BuiltRoutes : \E params \in ParamsOf(RouteAt(routes.tree, names)) :
       \E replace \in BOOLEAN :
         Navigate(names, params, replace, NavigatorUrl(routes.tree, names, params))

HooksSpec == HooksInit /\ [][HooksNext]_vars

-----------------------------------------------------------------------------
(* What the route definitions declare, read from the builder and not from  *)
(* the built tree: the claims state the built tree in these terms.         *)

\* the declared routes from the root to the route named by names
RECURSIVE DeclaredChain(_, _)
DeclaredChain(declared, names) ==
  IF Len(names) = 0 THEN <<>>
  ELSE <<Prop(declared, names[1]).config>>
       \o DeclaredChain(Prop(declared, names[1]).config.subRoutes, Tail(names))

Called == DeclaredChain(builder, call.route)

Own == Called[Len(Called)]

\* the segments of the chain, root first, put together
RECURSIVE ConcatSegments(_)
ConcatSegments(chain) ==
  IF Len(chain) = 0 THEN "" ELSE chain[1].segment \o ConcatSegments(Tail(chain))

DeclaredTemplate == ConcatSegments(Called)

EntriesOf(codecs) == {codecs[i] : i \in 1..Len(codecs)}

KeysOf(codecs) == {codecs[i].key : i \in 1..Len(codecs)}

\* the path-variable codecs declared on the route and on its ancestors
DeclaredPathVars == UNION {EntriesOf(Called[i].pathVars) : i \in 1..Len(Called)}

DeclaredPathKeys == {e.key : e \in DeclaredPathVars}

PathCodec(key) == (CHOOSE e \in DeclaredPathVars : e.key = key).value

OwnQueryKeys == KeysOf(Own.queryParams)

OwnQueryCodec(key) == (CHOOSE e \in EntriesOf(Own.queryParams) : e.key = key).value

\* the URL a parseUrl call is given, as new URL(..) reads it
CalledUrl ==
  URL(IF startsWith(call.arg.str, "http") THEN call.arg.str
      ELSE "http://localhost" \o call.arg.str)

UrlChunks == split(CalledUrl.pathname, "/")

TemplateChunks == split(DeclaredTemplate, "/")

\* the URL path differs from the template in its number of chunks or in a
\* chunk that is no variable
Mismatch ==
  \/ Len(UrlChunks) /= Len(TemplateChunks)
  \/ \E i \in 1..Len(TemplateChunks) :
       /\ ~startsWith(TemplateChunks[i], ":")
       /\ (i > Len(UrlChunks) \/ UrlChunks[i] /= TemplateChunks[i])

\* the decode of the URL chunk at the place of `:key` in the template
ChunkDecoded(key) ==
  CodecDecode(PathCodec(key),
              UrlChunks[CHOOSE i \in 1..Len(TemplateChunks) : TemplateChunks[i] = ":" \o key],
              Undefined)

-----------------------------------------------------------------------------
(* The claims.                                                             *)

\* the path variables whose chunk of the URL their codec rejects
FailingPathKeys == {key \in DeclaredPathKeys : IsError(ChunkDecoded(key))}

\* C2: for a URL whose path has as many chunks as the route's full template
\* and equals it on every chunk that is no variable, parseUrl(url).pathVars
\* maps every accumulated path-variable key (own and ancestors') to its
\* codec's decode of the URL chunk at the place of `:key` in the template;
\* when such a decode throws, parseUrl throws that error, and it throws no
\* other error before every path variable is decoded.
C2_ParseUrlPathVars ==
  (call.op = "parseUrl" /\ ~Mismatch) =>
     IF FailingPathKeys /= {}
     THEN result.value \in {ChunkDecoded(key) : key \in FailingPathKeys}
     ELSE \/ /\ ~IsError(result.value)
             /\ result.value.pathVars = [key \in DeclaredPathKeys |-> ChunkDecoded(key)]
          \/ /\ IsError(result.value)
             /\ Len(result.invoked) > Cardinality(DeclaredPathKeys)

C2_Witness ==
  /\ call.op = "parseUrl"
  /\ call.route = <<"library", "author">>
  /\ call.arg = Str("/library/1/author/4?tab=info")
  /\ result.value = [pathVars    |-> [libId |-> Num(1), authorId |-> Num(4)],
                     queryParams |-> [tab |-> Str("info")]]

\* C3: parseUrl(uri) throws UrlParserError exactly when the URL path's chunk
\* count differs from the template's or a template chunk that is no variable
\* differs from the URL chunk at its place; the message names the uri and
\* the full template, no codec is invoked and nothing else is returned.
C3_UrlParserError ==
  call.op = "parseUrl" =>
     /\ (IsError(result.value) /\ result.value.error = "UrlParserError") <=> Mismatch
     /\ Mismatch =>
          /\ result.value =
               [error   |-> "UrlParserError",
                message |-> "Unable to parse \"" \o call.arg.str
                            \o "\". The url does not match the template \""
                            \o DeclaredTemplate \o "\""]
          /\ result.invoked = <<>>

C3_Witness ==
  /\ call.op = "parseUrl"
  /\ call.route = <<"users", "edit", "profile">>
  /\ call.arg = Str("/users/edit")
  /\ result.value =
       [error   |-> "UrlParserError",
        message |-> "Unable to parse \"/users/edit\". The url does not match the template \"/users/edit/profile\""]

\* C4: template() is the segments of the route's ancestors and its own, put
\* together root first with the `:name` placeholders as declared, and
\* $config().segment is the route's own segment only.
C4_TemplateIsConcatenation ==
  /\ call.op = "template" => result.value = Str(DeclaredTemplate)
  /\ call.op = "$config" => result.value.segment = Own.segment

C4_Witness ==
  /\ call.op = "template"
  /\ call.route = <<"library", "author">>
  /\ result.value = Str("/library/:libId/author/:authorId")

\* C5: $config().pathVars is exactly the path-variable codecs declared on
\* the route and on its ancestors (nothing of a sibling or a descendant);
\* it is empty when none of them declares a path variable.
C5_PathVarsAccumulate ==
  call.op = "$config" => EntriesOf(result.value.pathVars) = DeclaredPathVars

C5_Witness ==
  /\ call.op = "$config"
  /\ call.route = <<"library", "author", "collection", "tome">>
  /\ KeysOf(result.value.pathVars) = {"libId", "authorId", "collectionId", "tomeId"}

\* C6: $config().queryParams holds the query-parameter codecs declared on
\* the route itself and none of an ancestor.
C6_QueryParamsOwn ==
  call.op = "$config" => result.value.queryParams = Own.queryParams

C6_Witness ==
  /\ call.op = "$config"
  /\ call.route = <<"library", "author">>
  /\ KeysOf(result.value.queryParams) = {"tab"}
  /\ KeysOf(Called[1].queryParams) = {"limit", "page"}

\* C10: makeUrl() with no argument, on a route with no path variable on its
\* chain, returns the route's full template and no query string.
C10_MakeUrlNoParams ==
  (call.op = "makeUrl" /\ call.arg = Undefined /\ DeclaredPathVars = {}) =>
     result.value = Str(DeclaredTemplate)

C10_Witness ==
  /\ call.op = "makeUrl"
  /\ call.arg = Undefined
  /\ call.route = <<"users", "edit", "profile">>
  /\ result.value = Str("/users/edit/profile")

-----------------------------------------------------------------------------
(* The claims the code departs from, stated as the specification states    *)
(* them.                                                                   *)

\* the own query keys a makeUrl call is given, in their declared order
GivenQueryKeys ==
  SelectSeq([i \in 1..Len(Own.queryParams) |-> Own.queryParams[i].key],
            LAMBDA key : key \in DOMAIN call.arg)

\* the template chunk with its placeholder replaced by the encoded value
FilledChunk(chunk) ==
  IF startsWith(chunk, ":") /\ SubSeq(chunk, 2, Len(chunk)) \in DeclaredPathKeys
  THEN LET key == SubSeq(chunk, 2, Len(chunk))
       IN CodecEncode(PathCodec(key), Param(call.arg, key), Undefined).str
  ELSE chunk

FilledTemplate ==
  join([i \in 1..Len(TemplateChunks) |-> FilledChunk(TemplateChunks[i])], "/")

\* `key=` and the percent-encoded encoding, or the encoding itself (as a
\* URI carries it) when it holds `key=` already
StatedFragment(key) ==
  LET encoded == CodecEncode(OwnQueryCodec(key), call.arg[key], Str(key)).str
  IN IF includes(encoded, key \o "=") THEN encodeURI(encoded)
     ELSE key \o "=" \o encodeURIComponent(encoded)

StatedUrl ==
  FilledTemplate
    \o (IF Len(GivenQueryKeys) = 0 THEN ""
        ELSE "?" \o join([i \in 1..Len(GivenQueryKeys) |-> StatedFragment(GivenQueryKeys[i])],
                         "&"))

\* the call gives a codec-valid value for every accumulated path variable
\* and a defined, codec-valid value for each own query parameter it names
ValidParams ==
  /\ call.arg /= Undefined
  /\ \A key \in DeclaredPathKeys :
       /\ key \in DOMAIN call.arg
       /\ ~IsError(CodecEncode(PathCodec(key), call.arg[key], Undefined))
  /\ \A key \in OwnQueryKeys \cap DOMAIN call.arg :
       /\ call.arg[key] /= Undefined
       /\ ~IsError(CodecEncode(OwnQueryCodec(key), call.arg[key], Str(key)))

\* C1: for a params object with a codec-valid value for each accumulated
\* path variable and defined values for some of the route's own query
\* parameters, makeUrl(params) is the full template with every `:key`
\* placeholder replaced by the codec's encoding of params[key], followed,
\* when an own query parameter is given, by `?` and one fragment for each,
\* joined by `&`: `key=` and the percent-encoded encoding, or the encoding
\* itself (as a URI carries it) when it holds `key=` already.
C1_MakeUrlFillsTemplate ==
  (call.op = "makeUrl" /\ ValidParams) => result.value = Str(StatedUrl)

\* the query string of the URL a parseUrl call is given, key by key
FirstValue(key) == searchParamsGet(CalledUrl.searchParams, key)

PresentQueryKeys == {key \in OwnQueryKeys : FirstValue(key) /= Null}

FirstDecoded(key) ==
  CodecDecode(OwnQueryCodec(key), FirstValue(key).str,
              [key |-> key, search |-> CalledUrl.search])

\* C7: for a URL that matches the route's template, parseUrl(url).queryParams
\* holds exactly the route's own declared query keys that the URL's query
\* string holds, each with its codec's decode of the first occurrence's
\* value (given the context {key, search}); absent, undeclared and
\* ancestors' keys are left out.
C7_ParseUrlQueryParams ==
  (/\ call.op = "parseUrl"
   /\ ~Mismatch
   /\ ~IsError(result.value)
   /\ \A key \in PresentQueryKeys : ~IsError(FirstDecoded(key)))
    => result.value.queryParams = [key \in PresentQueryKeys |-> FirstDecoded(key)]

\* the own query parameters declared as arrays in the given format
ArrayKeys(formats) ==
  {e.key : e \in {q \in EntriesOf(Own.queryParams) :
                    q.value.type = "array" /\ q.value.format \in formats}}

\* non-empty sequences of values of the array's inner type
SampleElements(codec) ==
  IF codec.type = "Number" THEN {Num(1), Num(2)} ELSE {Str("a"), Str("b")}

SampleArrays(codec) ==
  UNION {[1..n -> SampleElements(codec.codec)] : n \in 1..MaxArrayLen}

\* the query string of the array in its key-based format: k=v1&k=v2 or
\* k[]=v1&k[]=v2
KeyedSearch(key, values) ==
  "?" \o CodecEncode(OwnQueryCodec(key), Arr(values), Str(key)).str

\* C8: for an own query parameter k declared as an array in the repeat-key
\* or the key-square-brackets format and a URL whose query string is that
\* format's encoding of a non-empty sequence, parseUrl(url).queryParams[k]
\* is the sequence of the decoded values.
C8_ParseUrlKeyedArrays ==
  call.op = "parseUrl" =>
    \A key \in ArrayKeys({"repeat-key", "key-square-brackets"}) :
      \A values \in SampleArrays(OwnQueryCodec(key)) :
        call.arg.str = DeclaredTemplate \o KeyedSearch(key, values)
          => /\ ~IsError(result.value)
             /\ key \in DOMAIN result.value.queryParams
             /\ result.value.queryParams[key] = Arr(values)

\* C9: for an own query parameter arr declared as an array, in each of the
\* four formats, parseUrl of a matching URL whose query string is `?arr=`
\* gives queryParams.arr = [].
C9_EmptyValueIsEmptyArray ==
  call.op = "parseUrl" =>
    \A key \in ArrayKeys({"json", "delimited", "repeat-key", "key-square-brackets"}) :
      call.arg.str = DeclaredTemplate \o "?" \o key \o "="
        => /\ ~IsError(result.value)
           /\ key \in DOMAIN result.value.queryParams
           /\ result.value.queryParams[key] = Arr(<<>>)

-----------------------------------------------------------------------------
(* The codecs' claims, checked on the codecs called on their own.          *)

\* the codec decodes what it has just encoded to the value it was given
DecodesBack(codec) ==
  CodecDecode(codec, result.value.str, Undefined) = call.arg

\* C11: for every primitive codec C (Boolean, Number, String, Date) and
\* every value v that C.encode accepts, C.decode(C.encode(v)) is v.
C11_PrimitiveRoundTrip ==
  (call.op = "encode" /\ call.codec \in PrimitiveCodecs /\ ~IsError(result.value))
    => DecodesBack(call.codec)

\* the value a wrapper adds to its inner codec's values, and its text
Extras(wrapper) ==
  IF wrapper = "null" THEN {Null}
  ELSE IF wrapper = "undefined" THEN {Undefined}
  ELSE {Null, Undefined}

Wrap(wrapper, codec) ==
  IF wrapper = "null" THEN null(codec)
  ELSE IF wrapper = "undefined" THEN undefined(codec)
  ELSE nullish(codec)

Wrappers == {"null", "undefined", "nullish"}

\* C12, as stated: for every inner codec C and wrapper W (null, undefined,
\* nullish), W(C).decode(W(C).encode(v)) is v for every v that is the
\* wrapper's extra value or a value C.encode accepts, the strings of
\* C = String included.
C12_WrapperRoundTripAsStated ==
  call.op = "encode" =>
    \A wrapper \in Wrappers, codec \in PrimitiveCodecs :
      (/\ call.codec = Wrap(wrapper, codec)
       /\ \/ call.arg \in Extras(wrapper)
          \/ ~IsError(CodecEncode(codec, call.arg, Undefined)))
        => /\ ~IsError(result.value)
           /\ DecodesBack(call.codec)

\* C12: a wrapper's extra value decodes back to itself; any other value
\* the inner codec C encodes, to a text other than the wrapper's `null` /
\* `undefined`, is encoded as C encodes it and decodes back as C decodes
\* it. A string "null" (or "undefined") decodes back as the extra value.
C12_WrapperRoundTrip ==
  call.op = "encode" =>
    \A wrapper \in Wrappers, codec \in PrimitiveCodecs :
      call.codec = Wrap(wrapper, codec) =>
        LET inner == CodecEncode(codec, call.arg, Undefined)
        IN /\ call.arg \in Extras(wrapper)
                => ~IsError(result.value) /\ DecodesBack(call.codec)
           /\ (call.arg \notin Extras(wrapper) /\ ~IsError(inner))
                => /\ result.value = inner
                   /\ CodecDecode(call.codec, inner.str, Undefined) =
                        IF Str(inner.str) \in {Str(JsString(extra)) : extra \in Extras(wrapper)}
                        THEN CHOOSE extra \in Extras(wrapper) : JsString(extra) = inner.str
                        ELSE CodecDecode(codec, inner.str, Undefined)

C12_Witness ==
  /\ call.op = "encode"
  /\ call.codec = nullish(DateCodec)
  /\ call.arg = DateValue(19087, 84615150)
  /\ result.value = Str("2022-04-05T23:30:15.150Z")
  /\ DecodesBack(call.codec)

\* every element of the array is a value the codec encodes
AllValid(codec, xs) ==
  \A i \in 1..Len(xs) : ~IsError(CodecEncode(codec, xs[i], Undefined))

\* C13: for array(C) in the default json format and every sequence xs of
\* values valid for C, array(C).decode(array(C).encode(xs)) is xs.
C13_JsonArrayRoundTrip ==
  call.op = "encode" =>
    \A codec \in {NumberCodec, StringCodec, BooleanCodec} :
      (/\ call.codec = array(codec, <<>>)
       /\ IsArr(call.arg)
       /\ AllValid(codec, call.arg.arr))
        => /\ ~IsError(result.value)
           /\ DecodesBack(call.codec)

HasDigit(text) == \E i \in 1..Len(text) : IsDigit(CharAt(text, i))

\* a text that is no number whatever the notation: it holds no digit and
\* is not a signed or unsigned Infinity
NoNumber(text) == ~HasDigit(text) /\ text \notin {"Infinity", "+Infinity", "-Infinity"}

\* C14: Boolean.decode returns a value only for exactly "true" and "false"
\* and throws CodecDecodeError, with the message naming the text, for every
\* other text; Number.decode throws CodecDecodeError for the empty string
\* and for every text that is not a number, and never returns NaN.
C14_DecodeStrictness ==
  call.op = "decode" =>
    /\ call.codec = BooleanCodec =>
         result.value =
           IF call.arg.str = "true" THEN Bool(TRUE)
           ELSE IF call.arg.str = "false" THEN Bool(FALSE)
           ELSE [error   |-> "CodecDecodeError",
                 message |-> "Boolean values must be \"true\" or \"false\". Got \""
                               \o call.arg.str \o "\" instead"]
    /\ call.codec = NumberCodec =>
         /\ result.value /= NaN
         /\ NoNumber(call.arg.str) =>
              (IsError(result.value) /\ result.value.error = "CodecDecodeError")

NumberLiterals == numberLiteral(<<Num(1), Num(2), Num(3)>>)

StringLiterals == stringLiteral(<<Str("foo"), Str("true")>>)

\* the error of a literal codec: of the given class, its message listing
\* the allowed literals
ListsLiterals(error, class, list) ==
  /\ IsError(error)
  /\ error.error = class
  /\ includes(error.message, list)

C16_NullishPrecedence ==
  \A codec \in PrimitiveCodecs :
    (call.op \in {"decode", "encode"} /\ call.codec = nullish(codec)) =>
      /\ call.op = "decode" =>
           result.value =
             IF call.arg.str = "null" THEN Null
             ELSE IF call.arg.str = "undefined" THEN Undefined
             ELSE CodecDecode(codec, call.arg.str, Undefined)
      /\ call.op = "encode" =>
           result.value =
             IF call.arg = Null THEN Str("null")
             ELSE IF call.arg = Undefined THEN Str("undefined")
             ELSE CodecEncode(codec, call.arg, Undefined)

C16_Witness ==
  /\ call.op = "decode"
  /\ call.codec = nullish(StringCodec)
  /\ call.arg = Str("undefined")
  /\ result.value = Undefined

\* the encodings of the elements, v1 .. vn
Encoded(codec, xs) == [i \in 1..Len(xs) |-> CodecEncode(codec, xs[i], Undefined).str]

\* the array's encoding as the format writes it
Formatted(format, delimiter, key, vs) ==
  CASE format = "json" -> "[" \o join(vs, ",") \o "]"
    [] format = "delimited" -> join(vs, delimiter)
    [] format = "repeat-key" -> join([i \in 1..Len(vs) |-> key \o "=" \o vs[i]], "&")
    [] format = "key-square-brackets" -> join([i \in 1..Len(vs) |-> key \o "[]=" \o vs[i]], "&")

\* what array(codec, {format, delimiter}).encode(value, "k") is to be
ArrayEncodeAsSpecified(codec, format, delimiter) ==
  IF ~IsArr(call.arg)
  THEN IsError(result.value) /\ result.value.error = "CodecEncodeError"
  ELSE IF call.arg.arr = <<>> THEN result.value = Str("")
  ELSE AllValid(codec, call.arg.arr)
         => result.value = Str(Formatted(format, delimiter, "k", Encoded(codec, call.arg.arr)))

\* C17: array(C, {format, delimiter}).encode(xs, key) is the empty string
\* when xs is empty, in every format; otherwise it is `[v1,v2,...]` for
\* json (the default), the values joined by the delimiter (`,` by default)
\* for delimited, `key=v1&key=v2..` for repeat-key and `key[]=v1&key[]=v2..`
\* for key-square-brackets, vi being C.encode(xi); a value that is no array
\* throws CodecEncodeError in every format.
C17_ArrayEncode ==
  (call.op = "encode" /\ call.key = Str("k")) =>
    /\ \A codec \in {NumberCodec, StringCodec, BooleanCodec} :
         call.codec = array(codec, <<>>) => ArrayEncodeAsSpecified(codec, "json", ",")
    /\ \A codec \in {NumberCodec, StringCodec} :
         \A format \in {"delimited", "repeat-key", "key-square-brackets"} :
           call.codec = array(codec, [format |-> format])
             => ArrayEncodeAsSpecified(codec, format, ",")
    /\ call.codec = array(NumberCodec, [format |-> "delimited", delimiter |-> ";"])
         => ArrayEncodeAsSpecified(NumberCodec, "delimited", ";")

C17_Witness ==
  /\ call.op = "encode"
  /\ call.codec = array(NumberCodec, [format |-> "key-square-brackets"])
  /\ call.key = Str("k")
  /\ call.arg = Arr(<<Num(1), Num(2)>>)
  /\ result.value = Str("k[]=1&k[]=2")

KeyedFormats == {"repeat-key", "key-square-brackets"}

\* the values of every `name=value` piece of the raw query string, in order
Occurrences(search, name) ==
  LET pieces == IF Len(search) < 2 THEN <<>> ELSE split(SubSeq(search, 2, Len(search)), "&")
      hits   == SelectSeq(pieces, LAMBDA piece : startsWith(piece, name \o "="))
  IN [i \in 1..Len(hits) |-> SubSeq(hits[i], Len(name) + 2, Len(hits[i]))]

\* the name the format repeats in the query string
RepeatedName(format, key) == IF format = "repeat-key" THEN key ELSE key \o "[]"

\* the inner-decoded values of the texts, or the first error among them
DecodedEach(codec, texts) ==
  LET decoded == [i \in 1..Len(texts) |-> CodecDecode(codec, texts[i], Undefined)]
      failing == {i \in 1..Len(texts) : IsError(decoded[i])}
  IN IF failing = {} THEN Arr(decoded)
     ELSE decoded[CHOOSE i \in failing : \A j \in failing : i <= j]

\* with a query context, the decode gives the decoded values of every
\* occurrence of the repeated name
DecodesOccurrences(codec, format) ==
  call.query /= Undefined =>
    result.value =
      DecodedEach(codec, Occurrences(call.query.search, RepeatedName(format, call.query.key)))

\* C18, as stated: an array codec in the repeat-key or key-square-brackets
\* format throws CodecDecodeError for every text when decode is called
\* without the query context; with it, decode returns the inner-decoded
\* values of every occurrence of `key` (repeat-key) or `key[]`
\* (key-square-brackets) in the raw query string.
C18_KeyedDecodeAsStated ==
  call.op = "decode" =>
    \A codec \in {NumberCodec, StringCodec}, format \in KeyedFormats :
      call.codec = array(codec, [format |-> format]) =>
        /\ call.query = Undefined =>
             (IsError(result.value) /\ result.value.error = "CodecDecodeError")
        /\ DecodesOccurrences(codec, format)

\* C18: an array codec in the repeat-key or key-square-brackets format,
\* called without the query context, throws CodecDecodeError for every
\* text but the empty one, which it decodes to []; with the query context
\* it returns the inner-decoded values of every occurrence of `key`
\* (repeat-key) or `key[]` (key-square-brackets) in the raw query string.
C18_KeyedDecode ==
  call.op = "decode" =>
    \A codec \in {NumberCodec, StringCodec}, format \in KeyedFormats :
      call.codec = array(codec, [format |-> format]) =>
        /\ (call.query = Undefined /\ call.arg.str /= "") =>
             result.value =
               [error   |-> "CodecDecodeError",
                message |-> "The \"" \o format
                              \o "\" format is only supported on query paramaters"]
        /\ (call.query = Undefined /\ call.arg.str = "") => result.value = Arr(<<>>)
        /\ DecodesOccurrences(codec, format)

C18_Witness ==
  /\ call.op = "decode"
  /\ call.codec = array(NumberCodec, [format |-> "key-square-brackets"])
  /\ call.query = [key |-> "k", search |-> "?k[]=1&k[]=2&k=3"]
  /\ result.value = Arr(<<Num(1), Num(2)>>)

\* the texts the array codec hands to its inner codec on decode
Pieces(format, delimiter, text, query) ==
  IF text = "" /\ query = Undefined THEN <<>>
  ELSE CASE format = "json" ->
              IF startsWith(text, "[") /\ endsWith(text, "]")
              THEN split(SubSeq(text, 2, Len(text) - 1), ",") ELSE <<>>
         [] format = "delimited" -> split(text, delimiter)
         [] OTHER ->
              IF query = Undefined THEN <<>>
              ELSE Occurrences(query.search, RepeatedName(format, query.key))

\* the errors the inner codec throws on the texts / on the values
DecodeErrors(codec, texts) ==
  {e \in {CodecDecode(codec, texts[i], Undefined) : i \in 1..Len(texts)} : IsError(e)}

EncodeErrors(codec, values) ==
  {e \in {CodecEncode(codec, values[i], Undefined) : i \in 1..Len(values)} : IsError(e)}

\* the inner codec's error, if it throws one, is what the call throws
Propagates(errors) == errors /= {} => result.value \in errors

\* C19: whenever the inner codec's decode or encode throws for an element
\* or for the text or value handed on to it, array(C), null(C),
\* undefined(C) and nullish(C) throw that same error (same class, same
\* message) and return no partial result.
C19_InnerErrorsPropagate ==
  /\ call.op = "decode" =>
       /\ \A wrapper \in Wrappers, codec \in PrimitiveCodecs :
            (/\ call.codec = Wrap(wrapper, codec)
             /\ call.arg.str \notin {JsString(extra) : extra \in Extras(wrapper)})
              => Propagates(DecodeErrors(codec, <<call.arg.str>>))
       /\ \A arrayCodec \in ArrayCodecs :
            call.codec = arrayCodec
              => Propagates(DecodeErrors(arrayCodec.codec,
                                         Pieces(arrayCodec.format, arrayCodec.delimiter,
                                                call.arg.str, call.query)))
  /\ call.op = "encode" =>
       /\ \A wrapper \in Wrappers, codec \in PrimitiveCodecs :
            (call.codec = Wrap(wrapper, codec) /\ call.arg \notin Extras(wrapper))
              => Propagates(EncodeErrors(codec, <<call.arg>>))
       /\ \A arrayCodec \in ArrayCodecs :
            (call.codec = arrayCodec /\ IsArr(call.arg))
              => Propagates(EncodeErrors(arrayCodec.codec, call.arg.arr))

C19_Witness ==
  /\ call.op = "decode"
  /\ call.codec = array(NumberCodec, <<>>)
  /\ call.arg = Str("[1,2,]")
  /\ call.query = Undefined
  /\ result.value =
       [error   |-> "CodecDecodeError",
        message |-> "Number values must be numeric only. Got \"\" instead"]

-----------------------------------------------------------------------------
(* Builder persistence, under BuildersSpec.                                *)

Keys(obj) == {obj[i].key : i \in 1..Len(obj)}

\* the returned builder is a builder that did not exist before the call
ReturnsNewBuilder ==
  /\ result.value = [ref |-> Len(heap)]
  /\ result.value.ref /= call.this
  /\ call.op = "nest" => result.value.ref /= call.sub

\* the returned builder's routes are the receiver's plus the entry of the call
ReceiverPlusEntry ==
  LET made  == heap[result.value.ref]
      this  == heap[call.this]
      name  == call.arg.name
      entry == Prop(made, name)
  IN /\ Keys(made) = Keys(this) \cup {name}
     /\ \A key \in Keys(this) \ {name} : Prop(made, key) = Prop(this, key)
     /\ entry.config.segment = call.arg.path
     /\ entry.template = call.arg.path
     /\ entry.config.pathVars = ConfigPathVars(call.arg)
     /\ entry.config.queryParams = ConfigQueryParams(call.arg)
     /\ entry.props = IF call.op = "nest" THEN heap[call.sub] ELSE <<>>

\* the built tree has the routes of the builder, under their own paths
BuildsOwnRoutes ==
  LET tree == result.value.tree
      this == heap[call.this]
  IN /\ Len(tree) = Len(this)
     /\ \A i \in 1..Len(this) :
          /\ tree[i].key = this[i].key
          /\ tree[i].value.fullPath = this[i].value.template
          /\ tree[i].value.routeConfig = this[i].value.config
          /\ Keys(tree[i].value.props) = Keys(this[i].value.props)

\* every builder that exists stays what it is
BuildersKept ==
  /\ Len(heap') >= Len(heap)
  /\ \A b \in 1..Len(heap) : heap'[b] = heap[b]

-----------------------------------------------------------------------------
-----------------------------------------------------------------------------
\* the call adds a route under a name the receiver already holds
NameCollision ==
  /\ call.op \in {"path", "nest"}
  /\ HasKey(heap[call.this], call.arg.name)

\* the indexes of the routes a routes object holds under a name
Under(obj, name) == {i \in 1..Len(obj) : obj[i].key = name}

\* C22: adding a route under a name a sibling already has raises no error;
\* the returned builder, and the tree built from it, hold exactly one route
\* under that name, the later one, and the other siblings are unaffected.
C22_SiblingNameCollision ==
  NameCollision =>
    LET this == heap[call.this]
        made == heap[result.value.ref]
        name == call.arg.name
        tree == build(made)
    IN /\ ~IsError(result.value)
       /\ Len(made) = Len(this)
       /\ Cardinality(Under(made, name)) = 1
       /\ \A i \in Under(made, name) :
            /\ made[i].value.template = call.arg.path
            /\ made[i].value.config.segment = call.arg.path
            /\ made[i].value.props = IF call.op = "nest" THEN heap[call.sub] ELSE <<>>
       /\ \A i \in 1..Len(this) : this[i].key /= name => made[i] = this[i]
       /\ Cardinality(Under(tree, name)) = 1
       /\ \A i \in Under(tree, name) : tree[i].value.fullPath = call.arg.path
       /\ \A i \in 1..Len(this) : this[i].key /= name => tree[i] = build(this)[i]

\* a route replaces a different sibling of the same name, next to another one
C22_Witness ==
  /\ NameCollision
  /\ Len(heap[call.this]) >= 2
  /\ Prop(heap[call.this], call.arg.name) /= Prop(heap[result.value.ref], call.arg.name)

-----------------------------------------------------------------------------
\* C23: in the codec registry the last write wins: no addCodec(name, codec)
\* raises, whether the name is new, built in or registered before; after the
\* call Codecs[name] is the codec just passed; every other entry is
\* unchanged and none is removed.
C23_LastWriteWins ==
  [][call'.op = "addCodec" =>
       /\ ~IsError(result'.value)
       /\ HasKey(Codecs', call'.name)
       /\ Prop(Codecs', call'.name) = call'.arg
       /\ \A i \in 1..Len(Codecs) :
            Codecs[i].key /= call'.name =>
              /\ HasKey(Codecs', Codecs[i].key)
              /\ Prop(Codecs', Codecs[i].key) = Codecs[i].value]_vars

-----------------------------------------------------------------------------
(* makeUrl with absent keys, prefixes and undefined query values, and      *)
(* parseUrl of what makeUrl returned.                                      *)

\* C24: makeUrl(params) substitutes `:key` for the accumulated path-variable
\* keys that params holds and only for those: the codec of a key absent from
\* params is not invoked and its `:key` stays in the returned URL.
C24_AbsentKeysLeft ==
  (call.op = "makeUrl" /\ call.arg /= Undefined) =>
    /\ \A key \in DeclaredPathKeys \cap DOMAIN call.arg :
         \E i \in 1..Len(result.invoked) : result.invoked[i] = Invocation("encode", key)
    /\ \A key \in DeclaredPathKeys \ DOMAIN call.arg :
         /\ \A i \in 1..Len(result.invoked) : result.invoked[i] /= Invocation("encode", key)
         /\ ~IsError(result.value)
         /\ includes(result.value.str, ":" \o key)

\* route.parseUrl of the URL the makeUrl call returned
ParsedBack == parseUrl(RouteAt(routes.tree, call.route), result.value.str)

\* C26: for params with a codec-valid value for each accumulated path
\* variable and defined codec-valid values for some own query parameters,
\* parseUrl(makeUrl(params)) gives pathVars equal to params on the
\* path-variable keys and queryParams equal to params on the given own
\* query keys.
C26_RouteRoundTrip ==
  (call.op = "makeUrl" /\ ValidParams) =>
    /\ ~IsError(result.value)
    /\ ~IsError(ParsedBack.value)
    /\ ParsedBack.value.pathVars = [key \in DeclaredPathKeys |-> call.arg[key]]
    /\ ParsedBack.value.queryParams =
         [key \in OwnQueryKeys \cap DOMAIN call.arg |-> call.arg[key]]

\* one accumulated path-variable name is a proper prefix of another
PrefixedKeys ==
  \E short \in DeclaredPathKeys, long \in DeclaredPathKeys :
    short /= long /\ startsWith(long, short)

\* C27: when one accumulated path-variable name is a proper prefix of
\* another, makeUrl replaces each placeholder by the encoding of its own
\* variable's value only, and parseUrl of the URL recovers every value.
C27_PrefixPlaceholders ==
  (call.op = "makeUrl" /\ ValidParams /\ PrefixedKeys) =>
    /\ result.value = Str(StatedUrl)
    /\ ~IsError(ParsedBack.value)
    /\ ParsedBack.value.pathVars = [key \in DeclaredPathKeys |-> call.arg[key]]

\* an own query parameter of the call has a defined value
EncodesQuery ==
  /\ call.arg /= Undefined
  /\ \E key \in OwnQueryKeys \cap DOMAIN call.arg : call.arg[key] /= Undefined

\* C28: the URL makeUrl returns holds `?` exactly when an own query parameter
\* with a defined value was encoded; it never ends with `?`, and no fragment
\* follows a leading or doubled `&`.
C28_NoDanglingSeparator ==
  (call.op = "makeUrl" /\ ~IsError(result.value)) =>
    /\ includes(result.value.str, "?") <=> EncodesQuery
    /\ ~endsWith(result.value.str, "?")
    /\ ~includes(result.value.str, "?&")
    /\ ~includes(result.value.str, "&&")

-----------------------------------------------------------------------------
(* The hooks' claims.                                                      *)

\* the route of the hook, and what it reads in the location of the last
\* render: the path variables of its pathname and the own query parameters
\* of its search
HookRoute == RouteAt(routes.tree, hook.route)

LocationParams == parseUrl(HookRoute, location.pathname \o location.search)

\* the URL of the current location's parameters with the hook's key replaced
\* by the value the state holds
ReplacedUrl ==
  makeUrl(HookRoute, (hook.key :> hook.state) @@ LocationParams.value.queryParams
                       @@ LocationParams.value.pathVars)

\* C25: when the state of a makeQueryParamHook hook has been changed through
\* its setter, the navigate function is called with route.makeUrl of the
\* current location's path variables and query parameters, the hook's key
\* replaced by the new value and every other parameter kept.
C25_SetterNavigates ==
  (/\ hook /= NoHook
   /\ hook.kind = "queryParam"
   /\ hook.effect = "done"
   /\ ~IsError(LocationParams.value)
   /\ ~IsError(ReplacedUrl.value))
    => /\ Len(navigated) > 0
       /\ navigated[Len(navigated)].to = ReplacedUrl.value.str

\* what the built route's makeUrl returns for the params of a navigator call
BuiltUrl == makeUrl(RouteAt(routes.tree, call.route), call.arg)

\* C29: for every route of the tree, at any depth, the navigator's
\* navigate(params) calls the navigate function with the URL the built
\* route's makeUrl(params) returns and {replace: false}, and replace(params)
\* with the same URL and {replace: true}.
C29_NavigatorMirrorsTree ==
  (call.op \in {"navigate", "replace"} /\ ~IsError(BuiltUrl.value)) =>
    /\ ~IsError(result.value)
    /\ Len(navigated) > 0
    /\ navigated[Len(navigated)] =
         [to |-> BuiltUrl.value.str, options |-> [replace |-> call.op = "replace"]]

\* C30: a hook of makeQueryParamHook, makeAllQueryParamsHook or
\* makeRouteParamsHook starts with the route's own query parameters decoded
\* from the search of the location, whatever the location's hash is.
C30_InitialStateFromSearch ==
  (/\ hook /= NoHook
   /\ hook.effect = "mount"
   /\ ~IsError(LocationParams.value))
    => hook.state = InitialState(hook.kind, hook.key, hook.fallback,
                                 LocationParams.value.queryParams)

====
